---------------------------- MODULE Spec2Model ----------------------------
(***************************************************************************)
(* A model of pylook's "look" binary reader (read_binary) and of the       *)
(* r-file interpreter XlookParser (src/pylook/io/lookfiles.py), with the   *)
(* numeric transforms of src/pylook/calc/basic.py it calls.                *)
(*                                                                         *)
(* Text is modelled at the granularity of lexemes: a Python string is a    *)
(* sequence of lexemes, a lexeme being either one separator character      *)
(* (" ", "\t", "\n", ",", "#") or a maximal run of other characters.       *)
(* Numbers are exact rationals [n, d] (d = 0 encodes inf, -inf and nan).   *)
(***************************************************************************)
EXTENDS Integers, Sequences, FiniteSets, TLC

(***************************************************************************)
(* Numbers: the float64 / int64 elements of a numpy array.                 *)
(***************************************************************************)
Abs(i) == IF i < 0 THEN -i ELSE i

Sign(i) == IF i < 0 THEN -1 ELSE IF i > 0 THEN 1 ELSE 0

RECURSIVE Gcd(_, _)
Gcd(a, b) == IF b = 0 THEN a ELSE Gcd(b, a % b)

\* the value n/d in lowest terms; d = 0 gives inf (n > 0), -inf (n < 0), nan (n = 0)
Q(n, d) ==
    IF d = 0 THEN [n |-> Sign(n), d |-> 0]
    ELSE LET s == IF d < 0 THEN -1 ELSE 1
             g == Gcd(Abs(n), Abs(d))
         IN  [n |-> (s * n) \div g, d |-> (s * d) \div g]

I(n) == [n |-> n, d |-> 1]

NaN == [n |-> 0, d |-> 0]

IsFinite(v) == v.d # 0

\* IEEE addition: nan is absorbing, inf + (-inf) = nan
Add(a, b) ==
    IF a.d # 0 /\ b.d # 0 THEN Q(a.n * b.d + b.n * a.d, a.d * b.d)
    ELSE IF a = NaN \/ b = NaN THEN NaN
    ELSE IF a.d = 0 /\ b.d = 0 THEN (IF a.n = b.n THEN a ELSE NaN)
    ELSE IF a.d = 0 THEN a ELSE b

Neg(a) == [n |-> -a.n, d |-> a.d]

Sub(a, b) == Add(a, Neg(b))

\* IEEE multiplication: inf * 0 = nan
Mul(a, b) == Q(a.n * b.n, a.d * b.d)

\* IEEE (numpy true_divide) division: x/0 = +-inf, 0/0 = nan, x/inf = 0
Div(a, b) == IF a.d = 0 /\ b.d = 0 THEN NaN
             ELSE IF b.n = 0 THEN Q(a.n, 0)
             ELSE Q(a.n * b.d * Sign(b.n), a.d * Abs(b.n))

\* the C cast double -> int64 of a finite value: truncation toward zero
Trunc(v) == I(Sign(v.n) * (Abs(v.n) \div v.d))

(***************************************************************************)
(* Text: Python str operations on sequences of lexemes.                    *)
(***************************************************************************)
Whitespace == {" ", "\t", "\n"}

RECURSIVE lstrip(_)
lstrip(s) == IF s # <<>> /\ Head(s) \in Whitespace THEN lstrip(Tail(s)) ELSE s

RECURSIVE rstrip(_)
rstrip(s) == IF s # <<>> /\ s[Len(s)] \in Whitespace
             THEN rstrip(SubSeq(s, 1, Len(s) - 1)) ELSE s

\* str.strip()
strip(s) == rstrip(lstrip(s))

\* c in s
contains(s, c) == \E i \in 1..Len(s) : s[i] = c

\* s.split(c): the pieces between the occurrences of c, empty pieces kept
RECURSIVE split(_, _)
split(s, c) ==
    IF ~contains(s, c) THEN <<s>>
    ELSE LET i == CHOOSE k \in 1..Len(s) : s[k] = c /\ \A j \in 1..(k - 1) : s[j] # c
         IN  <<SubSeq(s, 1, i - 1)>> \o split(SubSeq(s, i + 1, Len(s)), c)

\* s.replace(c, '')
RECURSIVE remove(_, _)
remove(s, c) ==
    IF s = <<>> THEN <<>>
    ELSE IF Head(s) = c THEN remove(Tail(s), c)
    ELSE <<Head(s)>> \o remove(Tail(s), c)

(***************************************************************************)
(* Python's int() and float() on a token.  Both ignore surrounding         *)
(* whitespace and raise ValueError on anything that is not a literal.      *)
(***************************************************************************)
IntLiteral ==
    ("0" :> 0) @@ ("1" :> 1) @@ ("2" :> 2) @@ ("3" :> 3) @@ ("4" :> 4)
    @@ ("-1" :> -1) @@ ("31" :> 31) @@ ("32" :> 32)

FloatLiteral ==
    [w \in DOMAIN IntLiteral |-> I(IntLiteral[w])] @@ ("0.5" :> Q(1, 2))

is_int(tok) == Len(strip(tok)) = 1 /\ strip(tok)[1] \in DOMAIN IntLiteral

int(tok) == IntLiteral[strip(tok)[1]]

is_float(tok) == Len(strip(tok)) = 1 /\ strip(tok)[1] \in DOMAIN FloatLiteral

float(tok) == FloatLiteral[strip(tok)[1]]

\* a str value, or None
None == [some |-> FALSE, text |-> <<>>]

Str(t) == [some |-> TRUE, text |-> t]

(***************************************************************************)
(* numpy arrays.  An array value is [v, dt, ref]: its elements, its dtype  *)
(* and the identity of the array object: the least slot of the Column      *)
(* Store that holds that very object, or Fresh for an object no slot       *)
(* holds yet.                                                              *)
(***************************************************************************)
Fresh == -1

Array(v, dt) == [v |-> v, dt |-> dt, ref |-> Fresh]

Min(S) == CHOOSE x \in S : \A y \in S : x <= y

\* F(x), with x evaluated once
With(x, F(_)) == CHOOSE y \in {F(v) : v \in {x}} : TRUE

Max(a, b) == IF a >= b THEN a ELSE b

\* an operand of a ufunc: an array, or a Python float scalar
Scalar(x) == [scalar |-> TRUE, x |-> x]

Operand(a) == [scalar |-> FALSE, x |-> a]

ElemAt(o, i) == IF o.scalar THEN o.x ELSE IF Len(o.x.v) = 1 THEN o.x.v[1] ELSE o.x.v[i]

\* numpy broadcasting of a 1-d array against a 1-d array or a scalar
can_broadcast(a, o) ==
    o.scalar \/ Len(a.v) = Len(o.x.v) \/ Len(a.v) = 1 \/ Len(o.x.v) = 1

broadcast_len(a, o) ==
    IF o.scalar THEN Len(a.v)
    ELSE IF Len(a.v) = 1 THEN Len(o.x.v)
    ELSE IF Len(o.x.v) = 1 THEN Len(a.v)
    ELSE Len(a.v)

\* a variant that subtracts the wrong way round
Apply_reversed(operation, x, y) ==
    CASE operation = "*" -> Mul(x, y)
      [] operation = "/" -> Div(x, y)
      [] operation = "+" -> Add(x, y)
      [] operation = "-" -> Sub(y, x)

Apply(operation, x, y) ==
    CASE operation = "*" -> Mul(x, y)
      [] operation = "/" -> Div(x, y)
      [] operation = "+" -> Add(x, y)
      [] operation = "-" -> Sub(x, y)

\* numpy type promotion: true division and any float operand give float64
result_type(operation, a, o) ==
    IF operation = "/" \/ o.scalar \/ a.dt = "float64" \/ o.x.dt = "float64"
    THEN "float64" ELSE "int64"

\* a <operation> o, elementwise, as a new array
ufunc(operation, a, o) ==
    Array([i \in 1..broadcast_len(a, o) |->
              Apply(operation, ElemAt(Operand(a), i), ElemAt(o, i))],
          result_type(operation, a, o))

\* slice(start, stop).indices(n): negative bounds count from the end, then clamp
Clamp(i, n) == IF i < 0 THEN (IF i + n < 0 THEN 0 ELSE i + n)
               ELSE IF i > n THEN n ELSE i

\* a variant that takes element stop too
slice_range_closed(start, stop, n) ==
    (Clamp(start, n) + 1)..(IF Clamp(stop, n) < n THEN Clamp(stop, n) + 1 ELSE n)

\* the 1-based positions that a[start:stop] selects
slice_range(start, stop, n) == (Clamp(start, n) + 1)..Clamp(stop, n)

slice_len(start, stop, n) == Cardinality(slice_range(start, stop, n))

\* the stored form of value x in an array of dtype dt; u is what the cast of a
\* non-finite double to int64 (undefined in C) happens to give
cast(x, dt, u) == IF dt = "float64" THEN x
                  ELSE IF IsFinite(x) THEN Trunc(x) ELSE u

\* whether  a[start:stop] = b[start:stop]  broadcasts
can_assign_slice(a, b, start, stop) ==
    \/ slice_len(start, stop, Len(b.v)) = slice_len(start, stop, Len(a.v))
    \/ slice_len(start, stop, Len(b.v)) = 1

\* the elements of a after  a[start:stop] = b[start:stop]
assign_slice(a, b, start, stop, u) ==
    LET lo == Clamp(start, Len(a.v))
        blo == Clamp(start, Len(b.v))
        one == slice_len(start, stop, Len(b.v)) = 1
    IN  [i \in 1..Len(a.v) |->
            IF i \in slice_range(start, stop, Len(a.v))
            THEN cast(b.v[IF one THEN blo + 1 ELSE blo + (i - lo)], a.dt, u)
            ELSE a.v[i]]

(***************************************************************************)
(* The Column Store: the fields of an XlookParser.  A store is a record    *)
(*   data       : slot -> elements of the array the slot holds             *)
(*   dtype      : slot -> dtype of that array                              *)
(*   obj        : slot -> identity of that array object (the least slot    *)
(*                holding the same object; slots i, j alias iff            *)
(*                obj[i] = obj[j])                                         *)
(*   data_names : slot -> str or None                                      *)
(*   data_units : slot -> str or None                                      *)
(***************************************************************************)
max_cols == 32

Slots == 0..(max_cols - 1)

\* a variant whose names and unit-strings start as empty strings
init_unnamed ==
    [data       |-> [i \in Slots |-> <<>>],
     dtype      |-> [i \in Slots |-> "float64"],
     obj        |-> [i \in Slots |-> i],
     data_units |-> [i \in Slots |-> Str(<<>>)],
     data_names |-> [i \in Slots |-> Str(<<>>)]]

\* XlookParser.__init__
init ==
    [data       |-> [i \in Slots |-> <<>>],
     dtype      |-> [i \in Slots |-> "float64"],
     obj        |-> [i \in Slots |-> i],
     data_units |-> [i \in Slots |-> None],
     data_names |-> [i \in Slots |-> None]]

\* Python list indexing self.data[index]: negative indices count from the end
in_list(index) == -max_cols <= index /\ index < max_cols

at(index) == IF index < 0 THEN index + max_cols ELSE index

_get_data_by_index(self, index) ==
    [v |-> self.data[at(index)], dt |-> self.dtype[at(index)],
     ref |-> self.obj[at(index)]]

\* self.data[index] = data: the slot now holds the object data.ref
_set_data_by_index(self, index, data) ==
    LET k      == at(index)
        target == IF data.ref = Fresh THEN {}
                  ELSE {j \in Slots : self.obj[j] = data.ref}
        class(i) == IF i = k THEN target \cup {k}
                    ELSE IF i \in target THEN target \cup {k}
                    ELSE {j \in Slots : self.obj[j] = self.obj[i]} \ {k}
    IN  [self EXCEPT !.data[k] = data.v, !.dtype[k] = data.dt,
                     !.obj = [i \in Slots |-> Min(class(i))]]

_set_name_by_index(self, index, name) ==
    [self EXCEPT !.data_names[at(index)] = name]

\* a variant that leaves the unit-string as it was
_set_units_by_index_dropped(self, index, units) == self

_set_units_by_index(self, index, units) ==
    [self EXCEPT !.data_units[at(index)] = units]

\* an in-place write to an array object: every slot holding it sees the elements
write_in_place(self, a, v) ==
    IF a.ref = Fresh THEN self
    ELSE [self EXCEPT !.data = [i \in Slots |->
                          IF self.obj[i] = a.ref THEN v ELSE self.data[i]]]

(***************************************************************************)
(* What a handler leaves behind: the store, the warnings it issued         *)
(* (warnings.warn) and the exception it raised, if any.                    *)
(***************************************************************************)
Ret(self, warned, exc) == [self |-> self, warned |-> warned, exc |-> exc]

Warning(msg, about) == [msg |-> msg, about |-> about]

\* a variant that reports nothing
command_invalid_silent(command) == <<>>

\* command_invalid: one warning, nothing else
command_invalid(command) == <<Warning("Invalid Command", command)>>

\* the tokens of command.split(' ')
Tokens(command) == split(command, " ")

_check_number_of_arguments(command, n_args) == Len(Tokens(command)) = n_args

\* a variant that skips the line without a warning
check_warning_silent(command) == <<>>

check_warning(command) == <<Warning("expected, but received", command)>>

Operations == {<<"*">>, <<"/">>, <<"+">>, <<"-">>}

\* command_math and command_math_int determine the second operand alike:
\* [exc, bound, o, warned]
second_operand(self, command, arg_2, type_of_math) ==
    IF type_of_math = <<":">> THEN
        IF ~is_int(arg_2) THEN [exc |-> "ValueError", warned |-> <<>>]
        ELSE IF ~in_list(int(arg_2)) THEN [exc |-> "IndexError", warned |-> <<>>]
        ELSE [exc |-> "none", bound |-> TRUE, warned |-> <<>>,
              o |-> Operand(_get_data_by_index(self, int(arg_2)))]
    ELSE IF type_of_math = <<"=">> THEN
        IF ~is_float(arg_2) THEN [exc |-> "ValueError", warned |-> <<>>]
        ELSE [exc |-> "none", bound |-> TRUE, warned |-> <<>>,
              o |-> Scalar(float(arg_2))]
    ELSE [exc |-> "none", bound |-> FALSE, warned |-> command_invalid(command)]

command_math(self, command) ==
    IF ~_check_number_of_arguments(command, 8)
    THEN Ret(self, check_warning(command), "none")
    ELSE
    LET t == Tokens(command)
        arg_1 == t[2]
        operation == t[3]
        arg_2 == t[4]
        type_of_math == t[5]
        output_col_idx == t[6]
        output_name == Str(strip(t[7]))
        output_unit == Str(strip(t[8]))
    IN  IF ~is_int(arg_1) \/ ~is_int(output_col_idx)
        THEN Ret(self, <<>>, "ValueError")
        ELSE IF ~in_list(int(arg_1)) THEN Ret(self, <<>>, "IndexError")
        ELSE
        LET first_arg_data == _get_data_by_index(self, int(arg_1))
            second == second_operand(self, command, arg_2, type_of_math)
        IN  IF second.exc # "none" THEN Ret(self, <<>>, second.exc)
            ELSE IF operation \in Operations THEN
                \* the operand is read: unbound after an invalid type of math
                IF ~second.bound THEN Ret(self, second.warned, "UnboundLocalError")
                ELSE IF ~can_broadcast(first_arg_data, second.o)
                THEN Ret(self, <<>>, "ValueError")
                ELSE IF ~in_list(int(output_col_idx))
                THEN Ret(self, <<>>, "IndexError")
                ELSE
                LET result == ufunc(operation[1], first_arg_data, second.o)
                    out == int(output_col_idx)
                IN  Ret(_set_units_by_index(
                            _set_name_by_index(
                                _set_data_by_index(self, out, result),
                                out, output_name),
                            out, output_unit),
                        <<>>, "none")
            \* invalid operation: command_invalid returns and result is unbound
            ELSE Ret(self, second.warned \o command_invalid(command),
                     "UnboundLocalError")

\* u: the int64 a non-finite double is cast to (undefined in C)
command_math_int(self, command, u) ==
    IF ~_check_number_of_arguments(command, 10)
    THEN Ret(self, check_warning(command), "none")
    ELSE
    LET t == Tokens(command)
        arg_1 == t[2]
        operation == t[3]
        arg_2 == t[4]
        type_of_math == t[5]
        output_col_idx == t[6]
        start_idx == t[7]
        stop_idx == t[8]
        output_name == Str(strip(t[9]))
        output_unit == Str(strip(t[10]))
    IN  IF ~is_int(arg_1) \/ ~is_int(output_col_idx) \/ ~is_int(start_idx)
           \/ ~is_int(stop_idx)
        THEN Ret(self, <<>>, "ValueError")
        ELSE IF ~in_list(int(arg_1)) THEN Ret(self, <<>>, "IndexError")
        ELSE
        LET first_arg_data == _get_data_by_index(self, int(arg_1))
            second == second_operand(self, command, arg_2, type_of_math)
        IN  IF second.exc # "none" THEN Ret(self, <<>>, second.exc)
            ELSE IF operation \in Operations THEN
                IF ~second.bound THEN Ret(self, second.warned, "UnboundLocalError")
                ELSE IF ~can_broadcast(first_arg_data, second.o)
                THEN Ret(self, <<>>, "ValueError")
                ELSE
                LET result == ufunc(operation[1], first_arg_data, second.o)
                    out == int(output_col_idx)
                IN  IF ~can_assign_slice(first_arg_data, result,
                                         int(start_idx), int(stop_idx))
                    THEN Ret(self, <<>>, "ValueError")
                    ELSE
                    \* first_arg_data[start_idx: stop_idx] = result[...] writes into
                    \* the array object slot arg_1 holds
                    LET v == assign_slice(first_arg_data, result,
                                          int(start_idx), int(stop_idx), u)
                        written == write_in_place(self, first_arg_data, v)
                        mutated == [first_arg_data EXCEPT !.v = v]
                    IN  IF ~in_list(out) THEN Ret(written, <<>>, "IndexError")
                        ELSE Ret(_set_units_by_index(
                                    _set_name_by_index(
                                        _set_data_by_index(written, out, mutated),
                                        out, output_name),
                                    out, output_unit),
                                 <<>>, "none")
            ELSE Ret(self, second.warned \o command_invalid(command),
                     "UnboundLocalError")

\* np.cumsum
\* a variant that adds only the element before
cumsum_pairwise(v) ==
    [i \in 1..Len(v) |-> IF i = 1 THEN v[1] ELSE Add(v[i - 1], v[i])]

RECURSIVE cumsum(_)
cumsum(v) == IF v = <<>> THEN <<>>
             ELSE LET front == cumsum(SubSeq(v, 1, Len(v) - 1))
                  IN  Append(front, IF front = <<>> THEN v[Len(v)]
                                    ELSE Add(front[Len(front)], v[Len(v)]))

command_summation(self, command) ==
    IF ~_check_number_of_arguments(command, 5)
    THEN Ret(self, check_warning(command), "none")
    ELSE
    LET t == Tokens(command)
        input_col_idx == t[2]
        output_col_idx == t[3]
        output_name == Str(t[4])
        output_unit == Str(t[5])
    IN  IF ~is_int(input_col_idx) \/ ~is_int(output_col_idx)
        THEN Ret(self, <<>>, "ValueError")
        ELSE IF ~in_list(int(input_col_idx)) \/ ~in_list(int(output_col_idx))
        THEN Ret(self, <<>>, "IndexError")
        ELSE
        LET in == _get_data_by_index(self, int(input_col_idx))
            result == Array(cumsum(in.v), in.dt)
            out == int(output_col_idx)
        IN  Ret(_set_units_by_index(
                    _set_name_by_index(_set_data_by_index(self, out, result),
                                       out, output_name),
                    out, output_unit),
                <<>>, "none")

\* x ** p for a whole exponent p (numpy float_power semantics: 0 ** -1 = inf)
RECURSIVE Pow(_, _)
Pow(x, p) ==
    CASE p.d = 1 /\ p.n = 0 -> I(1)
      [] p.d = 1 /\ p.n > 0 -> Mul(x, Pow(x, I(p.n - 1)))
      [] p.d = 1 /\ p.n < 0 -> Div(I(1), Pow(x, I(-p.n)))

command_power(self, command) ==
    IF ~_check_number_of_arguments(command, 6)
    THEN Ret(self, check_warning(command), "none")
    ELSE
    LET t == Tokens(command)
        power == t[2]
        input_col_idx == t[3]
        output_col_idx == t[4]
        output_name == Str(t[5])
        output_unit == Str(t[6])
    IN  IF ~is_int(input_col_idx) \/ ~is_int(output_col_idx) \/ ~is_float(power)
        THEN Ret(self, <<>>, "ValueError")
        ELSE IF ~in_list(int(input_col_idx)) \/ ~in_list(int(output_col_idx))
        THEN Ret(self, <<>>, "IndexError")
        ELSE
        LET in == _get_data_by_index(self, int(input_col_idx))
            result == Array([i \in 1..Len(in.v) |-> Pow(in.v[i], float(power))],
                            "float64")
            out == int(output_col_idx)
        IN  Ret(_set_units_by_index(
                    _set_name_by_index(_set_data_by_index(self, out, result),
                                       out, output_name),
                    out, output_unit),
                <<>>, "none")

\* u: what the uninitialised memory of np.empty_like happens to hold
command_r_col(self, command, u) ==
    IF ~_check_number_of_arguments(command, 2)
    THEN Ret(self, check_warning(command), "none")
    ELSE
    LET col_idx == Tokens(command)[2]
    IN  IF ~is_int(col_idx) THEN Ret(self, <<>>, "ValueError")
        ELSE IF ~in_list(int(col_idx)) THEN Ret(self, <<>>, "IndexError")
        ELSE
        LET a == _get_data_by_index(self, int(col_idx))
            \* np.empty_like: a new array of the same shape and dtype
            empty_like == Array([i \in 1..Len(a.v) |-> u], a.dt)
        IN  Ret(_set_units_by_index(
                    _set_name_by_index(
                        _set_data_by_index(self, int(col_idx), empty_like),
                        int(col_idx), None),
                    int(col_idx), None),
                <<>>, "none")

\* a variant that removes row stop too
delete_through(v, start, stop_is_none, stop) ==
    LET n == Len(v)
        gone == slice_range(start, IF stop_is_none THEN n ELSE stop + 1, n)
        keep(i) == Cardinality({j \in 1..n : j \notin gone /\ j <= i})
    IN  [k \in 1..(n - Cardinality(gone)) |->
            v[CHOOSE i \in 1..n : i \notin gone /\ keep(i) = k]]

\* np.delete(v, slice(start, stop)); stop = None is "to the end"
delete(v, start, stop_is_none, stop) ==
    LET n == Len(v)
        gone == slice_range(start, IF stop_is_none THEN n ELSE stop, n)
        keep(i) == Cardinality({j \in 1..n : j \notin gone /\ j <= i})
    IN  [k \in 1..(n - Cardinality(gone)) |->
            v[CHOOSE i \in 1..n : i \notin gone /\ keep(i) = k]]

command_r_row(self, command) ==
    IF ~_check_number_of_arguments(command, 3)
    THEN Ret(self, check_warning(command), "none")
    ELSE
    LET t == Tokens(command)
        start_row_idx == t[2]
        end_row_idx == t[3]
    IN  IF ~is_int(start_row_idx) \/ ~is_int(end_row_idx)
        THEN Ret(self, <<>>, "ValueError")
        ELSE
        \* every slot gets a new array
        Ret([self EXCEPT
                !.data = [i \in Slots |->
                            delete(self.data[i], int(start_row_idx),
                                   int(end_row_idx) = -1, int(end_row_idx))],
                !.obj = [i \in Slots |-> i]],
            <<>>, "none")

(***************************************************************************)
(* pylook.calc: zero, remove_offset, elastic_correction.  Each returns     *)
(* [exc, a]: the exception raised, or the array returned.                  *)
(***************************************************************************)
\* a[index] is defined: Python indexing, negative indices from the end
in_array(v, index) == -Len(v) <= index /\ index < Len(v)

item(v, index) == v[(IF index < 0 THEN index + Len(v) ELSE index) + 1]

RECURSIVE sum(_)
sum(v) == IF v = <<>> THEN I(0) ELSE Add(Head(v), sum(Tail(v)))

\* np.mean of v[start:stop] (nan for an empty slice)
mean_of_slice(v, start, stop) ==
    LET r == slice_range(start, stop, Len(v))
    IN  Div(sum([k \in 1..Cardinality(r) |-> v[Clamp(start, Len(v)) + k]]),
            I(Cardinality(r)))

Raise(exc) == [exc |-> exc]

Return(a) == [exc |-> "none", a |-> a]

\* a variant that zeroes to the first element (no window)
zero_to_first(data, zero_idx, window, value, mode) ==
    IF ~in_array(data.v, zero_idx) THEN Raise("IndexError")
    ELSE Return(Array([i \in 1..Len(data.v) |-> Sub(data.v[i], data.v[1])],
                      data.dt))

\* a variant that leaves the zero point at zero
zero_without_value(data, zero_idx, window, value, mode) ==
    IF window = 0 /\ ~in_array(data.v, zero_idx) THEN Raise("IndexError")
    ELSE
    LET zero_value == IF window # 0
                      THEN mean_of_slice(data.v, zero_idx - window,
                                         zero_idx + window + 1)
                      ELSE item(data.v, zero_idx)
        shifted == [i \in 1..Len(data.v) |-> Sub(data.v[i], zero_value)]
    IN  IF mode \in {"before", "after"} /\ ~in_array(shifted, zero_idx)
        THEN Raise("IndexError")
        ELSE Return(Array(
            [i \in 1..Len(shifted) |->
                IF mode = "before" /\ i \in slice_range(0, zero_idx, Len(shifted))
                THEN item(shifted, zero_idx)
                ELSE IF mode = "after"
                        /\ i \in slice_range(zero_idx, Len(shifted), Len(shifted))
                THEN item(shifted, zero_idx)
                ELSE shifted[i]],
            data.dt))

zero(data, zero_idx, window, value, mode) ==
    IF window = 0 /\ ~in_array(data.v, zero_idx) THEN Raise("IndexError")
    ELSE
    LET zero_value == IF window # 0
                      THEN mean_of_slice(data.v, zero_idx - window,
                                         zero_idx + window + 1)
                      ELSE item(data.v, zero_idx)
        dt == IF window # 0 \/ value.d # 1 THEN "float64" ELSE data.dt
        shifted == [i \in 1..Len(data.v) |->
                       IF value # I(0) THEN Add(Sub(data.v[i], zero_value), value)
                       ELSE Sub(data.v[i], zero_value)]
    IN  IF mode \in {"before", "after"} /\ ~in_array(shifted, zero_idx)
        THEN Raise("IndexError")
        ELSE Return(Array(
            [i \in 1..Len(shifted) |->
                IF mode = "before" /\ i \in slice_range(0, zero_idx, Len(shifted))
                THEN item(shifted, zero_idx)
                ELSE IF mode = "after"
                        /\ i \in slice_range(zero_idx, Len(shifted), Len(shifted))
                THEN item(shifted, zero_idx)
                ELSE shifted[i]],
            dt))

\* set_between=False
set_between_default == FALSE

\* a variant that shifts the data from the start of the offset on
remove_offset_from_start(data, start_idx, end_idx, set_between) ==
    IF ~in_array(data.v, end_idx) \/ ~in_array(data.v, start_idx)
    THEN Raise("IndexError")
    ELSE
    LET n == Len(data.v)
        offset == Sub(item(data.v, end_idx), item(data.v, start_idx))
        between == [i \in 1..n |->
                       IF set_between /\ i \in slice_range(start_idx, end_idx, n)
                       THEN item(data.v, start_idx) ELSE data.v[i]]
        after == [i \in 1..n |->
                     IF i \in slice_range(start_idx, n, n)
                     THEN Sub(between[i], offset) ELSE between[i]]
    IN  Return([data EXCEPT !.v = after])

\* writes into data and returns that same array object
remove_offset(data, start_idx, end_idx, set_between) ==
    IF ~in_array(data.v, end_idx) \/ ~in_array(data.v, start_idx)
    THEN Raise("IndexError")
    ELSE
    LET n == Len(data.v)
        offset == Sub(item(data.v, end_idx), item(data.v, start_idx))
        between == [i \in 1..n |->
                       IF set_between /\ i \in slice_range(start_idx, end_idx, n)
                       THEN item(data.v, start_idx) ELSE data.v[i]]
        after == [i \in 1..n |->
                     IF i \in slice_range(end_idx, n, n)
                     THEN Sub(between[i], offset) ELSE between[i]]
    IN  Return([data EXCEPT !.v = after])

\* np.polyval(coeffs, x), coefficients from the highest power down
RECURSIVE polyval(_, _)
polyval(coeffs, x) ==
    IF coeffs = <<>> THEN I(0)
    ELSE Add(Mul(polyval(SubSeq(coeffs, 1, Len(coeffs) - 1), x), x),
             coeffs[Len(coeffs)])

\* pint: a unit is kept as its factor to the base units of its dimension
dimensionless == I(1)

\* a pint quantity: a magnitude (an array, or a number for a coefficient) and
\* its unit
Quantity(m, unit) == [m |-> m, units |-> unit]

\* q.to_base_units() of an array quantity; base units have factor 1
to_base_units(q) ==
    Quantity(Array([i \in 1..Len(q.m.v) |-> Mul(q.m.v[i], q.units)], "float64"),
             I(1))

\* q.to(unit), q of the dimension of unit
to(q, unit) ==
    Quantity(Array([i \in 1..Len(q.m.v) |->
                       Div(Mul(q.m.v[i], q.units), unit)], "float64"),
             unit)

\* a variant that reads the coefficients from the lowest power up
elastic_correction_lowest_first(load, displacement, coeffs) ==
    LET displacement_units_incoming == displacement.units
        load_m == to_base_units(load).m
        displacement_base == to_base_units(displacement)
        cs == [k \in 1..Len(coeffs) |->
                  Mul(coeffs[Len(coeffs) + 1 - k].m,
                      coeffs[Len(coeffs) + 1 - k].units)]
        correction == Array([i \in 1..Len(load_m.v) |-> polyval(cs, load_m.v[i])],
                            "float64")
    IN  IF ~can_broadcast(displacement_base.m, Operand(correction))
        THEN Raise("ValueError")
        ELSE Return(to(Quantity(ufunc("-", displacement_base.m,
                                      Operand(correction)),
                                displacement_base.units),
                       displacement_units_incoming))

elastic_correction(load, displacement, coeffs) ==
    LET displacement_units_incoming == displacement.units
        load_m == to_base_units(load).m
        displacement_base == to_base_units(displacement)
        cs == [k \in 1..Len(coeffs) |-> Mul(coeffs[k].m, coeffs[k].units)]
        correction == Array([i \in 1..Len(load_m.v) |-> polyval(cs, load_m.v[i])],
                            "float64")
    IN  IF ~can_broadcast(displacement_base.m, Operand(correction))
        THEN Raise("ValueError")
        ELSE Return(to(Quantity(ufunc("-", displacement_base.m,
                                      Operand(correction)),
                                displacement_base.units),
                       displacement_units_incoming))

command_zero(self, command) ==
    IF ~_check_number_of_arguments(command, 3)
    THEN Ret(self, check_warning(command), "none")
    ELSE
    LET t == Tokens(command)
        input_col_idx == t[2]
        zero_record == t[3]
    IN  IF ~is_int(input_col_idx) \/ ~is_int(zero_record)
        THEN Ret(self, <<>>, "ValueError")
        ELSE IF ~in_list(int(input_col_idx)) THEN Ret(self, <<>>, "IndexError")
        ELSE
        LET a == _get_data_by_index(self, int(input_col_idx))
            result == zero(Array(a.v, a.dt), int(zero_record), 0, I(0), "at")
        IN  IF result.exc # "none" THEN Ret(self, <<>>, result.exc)
            ELSE Ret(_set_data_by_index(self, int(input_col_idx), result.a),
                     <<>>, "none")

command_offset_int(self, command) ==
    IF ~_check_number_of_arguments(command, 5)
    THEN Ret(self, check_warning(command), "none")
    ELSE
    LET t == Tokens(command)
        col_idx == t[2]
        start_idx == t[3]
        stop_idx == t[4]
        set_between == strip(t[5])
    IN  IF ~is_int(col_idx) \/ ~is_int(start_idx) \/ ~is_int(stop_idx)
        THEN Ret(self, <<>>, "ValueError")
        \* self.command_invalid() is called without its argument
        ELSE IF set_between \notin {<<"y">>, <<"Y">>, <<"n">>, <<"N">>}
        THEN Ret(self, <<>>, "TypeError")
        ELSE IF ~in_list(int(col_idx)) THEN Ret(self, <<>>, "IndexError")
        ELSE
        LET a == _get_data_by_index(self, int(col_idx))
            col_data == remove_offset(Array(a.v, a.dt), int(start_idx),
                                      int(stop_idx),
                                      set_between \in {<<"y">>, <<"Y">>})
        IN  IF col_data.exc # "none" THEN Ret(self, <<>>, col_data.exc)
            ELSE Ret(_set_data_by_index(self, int(col_idx), col_data.a),
                     <<>>, "none")

\* u: the int64 a non-finite double is cast to (undefined in C)
command_ec(self, command, u) ==
    IF ~_check_number_of_arguments(command, 9)
    THEN Ret(self, check_warning(command), "none")
    ELSE
    LET t == Tokens(command)
        disp_col_idx == t[2]
        load_col_idx == t[3]
        output_col_idx == t[4]
        first_idx == t[5]
        last_idx == t[6]
        output_name == Str(t[8])
        output_unit == Str(t[9])
    IN  IF ~is_int(disp_col_idx) \/ ~is_int(load_col_idx) \/ ~is_int(output_col_idx)
           \/ ~is_int(first_idx) \/ ~is_int(last_idx) \/ ~is_float(t[7])
        THEN Ret(self, <<>>, "ValueError")
        ELSE IF float(t[7]) = I(0) THEN Ret(self, <<>>, "ZeroDivisionError")
        ELSE IF ~in_list(int(load_col_idx)) \/ ~in_list(int(disp_col_idx))
        THEN Ret(self, <<>>, "IndexError")
        ELSE
        LET slope == Div(I(1), float(t[7]))
            l == _get_data_by_index(self, int(load_col_idx))
            d == _get_data_by_index(self, int(disp_col_idx))
            load_data == Array(l.v, l.dt)
            disp_data == Array(d.v, d.dt)
            coeffs == <<Quantity(slope, dimensionless),
                        Quantity(I(0), dimensionless)>>
            corrected == elastic_correction(Quantity(load_data, dimensionless),
                                            Quantity(disp_data, dimensionless),
                                            coeffs)
        IN  IF corrected.exc # "none" THEN Ret(self, <<>>, corrected.exc)
            ELSE IF ~can_broadcast(disp_data, Operand(corrected.a.m))
            THEN Ret(self, <<>>, "ValueError")
            ELSE
            LET ec_corrected_disp == ufunc("-", disp_data, Operand(corrected.a.m))
                out == int(output_col_idx)
            IN  IF ~can_assign_slice(disp_data, ec_corrected_disp,
                                     int(first_idx), int(last_idx))
                THEN Ret(self, <<>>, "ValueError")
                ELSE IF ~in_list(out) THEN Ret(self, <<>>, "IndexError")
                ELSE
                LET v == assign_slice(disp_data, ec_corrected_disp,
                                      int(first_idx), int(last_idx), u)
                IN  Ret(_set_units_by_index(
                            _set_name_by_index(
                                _set_data_by_index(self, out,
                                                   Array(v, disp_data.dt)),
                                out, output_name),
                            out, output_unit),
                        <<>>, "none")

(***************************************************************************)
(* read_binary.  A look file is a record                                   *)
(*   name, num_recs, num_cols, swp, dtime : the leading fields             *)
(*   headers : the 32 column header blocks [chname, chunits, nelem]        *)
(*   data    : the 8-byte words after the headers, each [little, big]:     *)
(*             the double it decodes to in either byte order               *)
(* In a header field the lexeme "no_val" stands for those six characters   *)
(* and the lexeme "NUL" for a NUL byte.                                    *)
(***************************************************************************)
\* for i in range(32)
header_blocks == 32

\* pylook.units.units(unit), and str() of the unit it gives
UnitRegistry ==
    (<<>> :> <<"dimensionless">>) @@ (<<"dimensionless">> :> <<"dimensionless">>)
    @@ (<<"mm">> :> <<"millimeter">>) @@ (<<"N">> :> <<"newton">>)
    @@ (<<"sec">> :> <<"second">>)

units_defined(unit) == strip(unit) \in DOMAIN UnitRegistry

\* a variant that keeps the unit-string of the header
units_as_written(unit) == strip(unit)

units(unit) == UnitRegistry[strip(unit)]

\* text.split('\0')[0]
until_nul(text) == split(text, "NUL")[1]

\* the header fields as read_binary keeps them
clean(text, clean_header) == IF clean_header THEN strip(until_nul(text))
                             ELSE until_nul(text)

\* chname[0:6] == 'no_val'
is_blank_channel(chname) == chname # <<>> /\ Head(chname) = "no_val"

\* a variant that stops at the first blank channel
RECURSIVE columns_until_blank(_, _, _)
columns_until_blank(headers, k, clean_header) ==
    IF k = 0 THEN <<>>
    ELSE LET h == headers[k]
             chname == clean(h.chname, clean_header)
             before == columns_until_blank(headers, k - 1, clean_header)
         IN  IF is_blank_channel(chname) \/ Len(before) < k - 1 THEN before
             ELSE Append(before,
                         [name |-> chname, recs |-> h.nelem,
                          units |-> clean(h.chunits, clean_header)])

\* the header blocks that are kept, in file order (col_headings, col_recs,
\* col_units), from the first k blocks
RECURSIVE columns(_, _, _)
columns(headers, k, clean_header) ==
    IF k = 0 THEN <<>>
    ELSE LET h == headers[k]
             chname == clean(h.chname, clean_header)
         IN  IF is_blank_channel(chname) THEN columns(headers, k - 1, clean_header)
             ELSE Append(columns(headers, k - 1, clean_header),
                         [name |-> chname, recs |-> h.nelem,
                          units |-> clean(h.chunits, clean_header)])

\* a variant that gives every column the rows of the longest
RECURSIVE words_before_rectangular(_, _)
words_before_rectangular(cols, col) ==
    IF col <= 1 THEN 0
    ELSE LET longest == CHOOSE r \in {cols[i].recs : i \in 1..Len(cols)} :
                            \A i \in 1..Len(cols) : cols[i].recs <= r
         IN  words_before_rectangular(cols, col - 1) + Max(longest, 0)

\* the words consumed before column col (1-based) of the data section is read
RECURSIVE words_before(_, _)
words_before(cols, col) ==
    IF col <= 1 THEN 0
    ELSE words_before(cols, col - 1) + Max(cols[col - 1].recs, 0)

\* data_dict[name] = value on an insertion-ordered dict
dict_set(d, entry) ==
    IF \E i \in 1..Len(d) : d[i].name = entry.name
    THEN [i \in 1..Len(d) |-> IF d[i].name = entry.name THEN entry ELSE d[i]]
    ELSE Append(d, entry)

RECURSIVE dict_of(_, _)
dict_of(entries, k) ==
    IF k = 0 THEN <<>>
    ELSE With(dict_of(entries, k - 1), LAMBDA d : dict_set(d, entries[k]))

metadata_of(file, clean_header) ==
    (IF clean_header THEN ("name" :> strip(until_nul(file.name))) ELSE <<>>)
    @@ ("number of records" :> file.num_recs)
    @@ ("number of columns" :> file.num_cols)
    @@ ("swp" :> file.swp) @@ ("dtime" :> file.dtime)

\* the data loop from column col (1-based) on, pos words being consumed:
\*   for col in range(num_cols):
\*       for row in range(col_recs[col]):
\*           data[row, col] = struct.unpack(.., f.read(8))[0]
\* gives the exception that ends it ("none": it completes).  With a byte order
\* that is neither 'little' nor 'big' the body reads and assigns nothing.
RECURSIVE data_loop(_, _, _, _, _)
data_loop(file, cols, col, pos, known_order) ==
    IF col > file.num_cols THEN "none"
    ELSE IF col > Len(cols) THEN "IndexError"
    ELSE IF ~known_order THEN data_loop(file, cols, col + 1, pos, known_order)
    ELSE
    LET rows == Max(cols[col].recs, 0)
        short == Len(file.data) - pos < rows
        over == file.num_recs < rows
    IN  IF short /\ (~over \/ Len(file.data) - pos <= file.num_recs)
        THEN "struct.error"
        ELSE IF over THEN "IndexError"
        ELSE data_loop(file, cols, col + 1, pos + rows, known_order)

\* u: what the uninitialised memory of np.empty happens to hold.
\* [exc, warned, data_dict, metadata]; data_dict is the insertion-ordered
\* sequence of [name, v, dt, units].
read_columns(file, cols, data_endianness, unrecognized_units, clean_header, u) ==
    LET n == Len(cols)
        known_order == data_endianness \in {"little", "big"}
        loop_exc == data_loop(file, cols, 1, 0, known_order)
        column(i) ==
            [j \in 1..file.num_recs |->
                IF known_order /\ j <= cols[i].recs
                THEN file.data[words_before(cols, i) + j][data_endianness]
                ELSE u]
        \* the first column whose unit fails under 'error', the first with no
        \* column of the matrix; 0 when there is none
        bad_unit == IF unrecognized_units # "ignore"
                       /\ \E i \in 1..n : ~units_defined(cols[i].units)
                    THEN Min({i \in 1..n : ~units_defined(cols[i].units)}) ELSE 0
        bad_col == IF n > file.num_cols THEN file.num_cols + 1 ELSE 0
        last == IF bad_unit # 0 /\ (bad_col = 0 \/ bad_unit <= bad_col)
                THEN bad_unit - 1
                ELSE IF bad_col # 0 THEN bad_col ELSE n
        warned == IF unrecognized_units # "ignore" THEN <<>>
                  ELSE LET unknown == {i \in 1..last : ~units_defined(cols[i].units)}
                           nth(k) == CHOOSE i \in unknown :
                                        Cardinality({j \in unknown : j <= i}) = k
                       IN  [k \in 1..Cardinality(unknown) |->
                               Warning("Unknown unit", cols[nth(k)].units)]
        rec_num == [name |-> <<"rec_num">>,
                    v |-> [j \in 1..file.num_recs |-> I(j - 1)],
                    dt |-> "int64", units |-> <<"dimensionless">>]
        entries == <<rec_num>> \o
                   [i \in 1..n |->
                       [name |-> cols[i].name, v |-> column(i), dt |-> "float64",
                        units |-> IF units_defined(cols[i].units)
                                  THEN units(cols[i].units)
                                  ELSE <<"dimensionless">>]]
    IN  IF file.num_recs < 0 \/ file.num_cols < 0
        THEN [exc |-> "ValueError", warned |-> <<>>]
        ELSE IF loop_exc # "none"
        THEN [exc |-> loop_exc, warned |-> <<>>]
        ELSE IF bad_unit # 0 /\ (bad_col = 0 \/ bad_unit <= bad_col)
        THEN [exc |-> "UndefinedUnitError", warned |-> warned,
              unit |-> cols[bad_unit].units]
        ELSE IF bad_col # 0 THEN [exc |-> "IndexError", warned |-> warned]
        ELSE [exc |-> "none", warned |-> warned,
              data_dict |-> With(entries, LAMBDA e : dict_of(e, Len(e))),
              metadata |-> metadata_of(file, clean_header)]

\* the 8-byte words f.read(8) has taken from the data section when the data
\* loop has completed
words_read(file, data_endianness, clean_header) ==
    LET cols == columns(file.headers, header_blocks, clean_header)
    IN  IF data_endianness \in {"little", "big"} /\ file.num_cols <= Len(cols)
        THEN words_before(cols, file.num_cols + 1) ELSE 0

\* a variant that never fails for a unit
read_binary_lenient(file, data_endianness, unrecognized_units, clean_header, u) ==
    With(columns(file.headers, header_blocks, clean_header),
         LAMBDA cols : read_columns(file, cols, data_endianness, "ignore",
                                    clean_header, u))

read_binary(file, data_endianness, unrecognized_units, clean_header, u) ==
    With(columns(file.headers, header_blocks, clean_header),
         LAMBDA cols : read_columns(file, cols, data_endianness,
                                    unrecognized_units, clean_header, u))

(***************************************************************************)
(* The files on disk that scripts name.                                    *)
(***************************************************************************)
Block(chname, chunits, nelem) ==
    [chname |-> chname, chunits |-> chunits, nelem |-> nelem]

Blank == Block(<<"no_val">>, <<"no_val">>, 0)

\* the header section always holds 32 blocks
Pad(blocks) == blocks \o [i \in 1..(header_blocks - Len(blocks)) |-> Blank]

\* an 8-byte word by the doubles it decodes to
Word(little, big) == [little |-> little, big |-> big]

FileA ==
    [name |-> <<"p655", "NUL">>, num_recs |-> 3, num_cols |-> 2,
     swp |-> 0, dtime |-> 0,
     headers |-> Pad(<<Block(<<"Time", "NUL">>, <<"sec", "NUL">>, 3), Blank,
                       Block(<<"Load", "NUL">>, <<"N", "NUL">>, 3)>>),
     data |-> <<Word(I(1), I(-5)), Word(I(2), I(-6)), Word(I(3), I(-7)),
                Word(I(10), NaN), Word(I(20), I(0)), Word(I(30), I(8))>>]

\* a column shorter than the record count, and a unit pint does not know
FileB ==
    [name |-> <<"p700", " ", "NUL">>, num_recs |-> 2, num_cols |-> 2,
     swp |-> 0, dtime |-> 0,
     headers |-> Pad(<<Block(<<"Disp", "NUL">>, <<"mm", " ", "NUL">>, 2),
                       Block(<<"Force", "NUL">>, <<"bogus", "NUL">>, 1)>>),
     data |-> <<Word(I(4), I(1)), Word(I(6), I(2)), Word(I(5), I(3))>>]

\* every one of the 32 header blocks in use, one record
ChannelNames ==
    <<"ch1", "ch2", "ch3", "ch4", "ch5", "ch6", "ch7", "ch8",
      "ch9", "ch10", "ch11", "ch12", "ch13", "ch14", "ch15",
      "ch16", "ch17", "ch18", "ch19", "ch20", "ch21", "ch22",
      "ch23", "ch24", "ch25", "ch26", "ch27", "ch28", "ch29",
      "ch30", "ch31", "ch32">>

FileH ==
    [name |-> <<"p706", "NUL">>, num_recs |-> 1, num_cols |-> header_blocks,
     swp |-> 0, dtime |-> 0,
     headers |-> [i \in 1..header_blocks |->
                     Block(<<ChannelNames[i], "NUL">>, <<"N", "NUL">>, 1)],
     data |-> [i \in 1..header_blocks |-> Word(I(i), I(-i))]]

Files == (<<"a.bin">> :> FileA) @@ (<<"b.bin">> :> FileB)
         @@ (<<"c.bin">> :> FileH)

\* the first and the last header block in use
FileC ==
    [name |-> <<"p701", "NUL">>, num_recs |-> 2, num_cols |-> 2,
     swp |-> 3, dtime |-> 7,
     headers |-> [i \in 1..header_blocks |->
                     IF i = 1 THEN Block(<<"Time", "NUL">>, <<"sec", "NUL">>, 2)
                     ELSE IF i = header_blocks
                     THEN Block(<<"Load", "NUL">>, <<"N", "NUL">>, 2)
                     ELSE Blank],
     data |-> <<Word(I(1), I(-5)), Word(I(2), I(-6)),
                Word(I(10), I(0)), Word(I(20), I(8))>>]

\* a blank channel whose name has a leading space, and one named no_value
FileD ==
    [name |-> <<" ", "p702", "NUL">>, num_recs |-> 1, num_cols |-> 2,
     swp |-> 0, dtime |-> 0,
     headers |-> Pad(<<Block(<<" ", "no_val", "NUL">>, <<"no_val">>, 1),
                       Block(<<"no_val", "ue", "NUL">>, <<"N", "NUL">>, 1),
                       Block(<<"Time", " ", "NUL">>, <<"sec", "NUL">>, 1)>>),
     data |-> <<Word(I(0), I(-5)), Word(I(1), I(-5))>>]

\* a column count larger than the number of channels in use
FileE ==
    [name |-> <<"p703", "NUL">>, num_recs |-> 1, num_cols |-> 2,
     swp |-> 0, dtime |-> 0,
     headers |-> Pad(<<Block(<<"Time", "NUL">>, <<"furlong", "NUL">>, 1)>>),
     data |-> <<Word(I(1), I(-5)), Word(I(2), I(-6))>>]

\* a short column before a full one, and a word left over after the last
FileF ==
    [name |-> <<"p704", "NUL">>, num_recs |-> 2, num_cols |-> 2,
     swp |-> 0, dtime |-> 0,
     headers |-> Pad(<<Block(<<"Disp", "NUL">>, <<"mm", "NUL">>, 1),
                       Block(<<"Force", "NUL">>, <<"N", "NUL">>, 2)>>),
     data |-> <<Word(I(4), I(1)), Word(I(6), I(2)), Word(I(5), I(3)),
                Word(I(7), I(9))>>]

\* the files read_binary is called on directly
\* two channels recorded under one name
FileG ==
    [name |-> <<"p705", "NUL">>, num_recs |-> 1, num_cols |-> 2,
     swp |-> 0, dtime |-> 0,
     headers |-> Pad(<<Block(<<"Load", "NUL">>, <<"N", "NUL">>, 1),
                       Block(<<"Load", "NUL">>, <<"mm", "NUL">>, 1)>>),
     data |-> <<Word(I(1), I(-5)), Word(I(2), I(-6))>>]

LookFiles == {FileA, FileB, FileC, FileD, FileE, FileF, FileG}

\* the values the builds can leave in uninitialised memory or give for the
\* cast of a non-finite double to int64
Garbage == {I(0), I(-9)}

\* one turn of the loop of command_read: entry e goes to slot i
load_entry(self, i, e) ==
    _set_units_by_index(
        _set_name_by_index(_set_data_by_index(self, i, Array(e.v, e.dt)),
                           i, Str(e.name)),
        i, Str(e.units))

\* the loop of command_read over the first k entries of data_dict
RECURSIVE load(_, _, _)
load(self, data_dict, k) ==
    IF k = 0 THEN self
    ELSE With(load(self, data_dict, k - 1),
              LAMBDA s : load_entry(s, k - 1, data_dict[k]))

read_into(self, r) ==
    IF r.exc # "none" THEN Ret(self, r.warned, r.exc)
    ELSE IF Len(r.data_dict) > max_cols
    THEN Ret(load(self, r.data_dict, max_cols), r.warned, "IndexError")
    ELSE Ret(load(self, r.data_dict, Len(r.data_dict)), r.warned, "none")

\* a variant that warns about a file that is not there and goes on
command_read_lenient(self, command, u) ==
    IF ~_check_number_of_arguments(command, 2)
    THEN Ret(self, check_warning(command), "none")
    ELSE
    LET fpath == strip(Tokens(command)[2])
    IN  IF fpath \notin DOMAIN Files THEN Ret(self, command_invalid(command), "none")
        ELSE With(read_binary(Files[fpath], "little", "ignore", TRUE, u),
                  LAMBDA r : read_into(self, r))

command_read(self, command, u) ==
    IF ~_check_number_of_arguments(command, 2)
    THEN Ret(self, check_warning(command), "none")
    ELSE
    LET fpath == strip(Tokens(command)[2])
    IN  IF fpath \notin DOMAIN Files THEN Ret(self, <<>>, "FileNotFoundError")
        ELSE With(read_binary(Files[fpath], "little", "ignore", TRUE, u),
                  LAMBDA r : read_into(self, r))

(***************************************************************************)
(* doit and parse_line.                                                    *)
(***************************************************************************)
\* the text doit hands to parse_line: an in-line comment is cut off
uncommented(line) ==
    IF contains(line, "#") THEN strip(split(line, "#")[1]) ELSE line

\* a variant that compares the raw line
is_end_raw(line) == line = <<"end">>

is_end(line) == strip(uncommented(line)) = <<"end">>

command_functions ==
    {"math", "begin", "com_file", "summation", "power", "zero", "ec", "r_col",
     "math_int", "offset_int", "r_row", "read"}

\* parse_line: the handler the line is dispatched to and the text it is given
parse_line(line) ==
    LET stripped == strip(line)
        command_root == split(strip(stripped), " ")[1]
        no_commas == remove(stripped, ",")
    IN  IF stripped = <<>> \/ Head(stripped) = "#"
        THEN [handler |-> "comment", command |-> stripped]
        ELSE [handler |-> IF Len(command_root) = 1
                             /\ command_root[1] \in command_functions
                          THEN command_root[1] ELSE "invalid",
              command |-> strip(no_commas)]

\* action_function(line.strip()) for the handler parse_line chose; u is what
\* the handler finds in uninitialised memory or gets from an undefined cast
action_function(self, handler, command, u) ==
    CASE handler \in {"comment", "begin", "com_file"} -> Ret(self, <<>>, "none")
      [] handler = "invalid" -> Ret(self, command_invalid(command), "none")
      [] handler = "math" -> command_math(self, command)
      [] handler = "math_int" -> command_math_int(self, command, u)
      [] handler = "summation" -> command_summation(self, command)
      [] handler = "power" -> command_power(self, command)
      [] handler = "zero" -> command_zero(self, command)
      [] handler = "ec" -> command_ec(self, command, u)
      [] handler = "r_col" -> command_r_col(self, command, u)
      [] handler = "offset_int" -> command_offset_int(self, command)
      [] handler = "r_row" -> command_r_row(self, command)
      [] handler = "read" -> command_read(self, command, u)

(***************************************************************************)
(* The lines of the r files run.                                           *)
(***************************************************************************)
RECURSIVE Join(_)
Join(words) == IF Len(words) <= 1 THEN words
               ELSE <<Head(words), " ">> \o Join(Tail(words))

\* the words separated by single spaces, with the newline readlines() keeps
L(words) == Join(words) \o <<"\n">>

MarkerLines ==
    {L(<<"begin">>), L(<<"com_file">>), L(<<"#", " ", "comment">>), L(<<>>),
     L(<<"end">>), <<" ", "end", " ", "#", "stop", "\n">>, L(<<"end", "1">>),
     L(<<"foo", "1", "2">>)}

ReadLines ==
    {L(<<"read", "a.bin">>), L(<<"read", "b.bin">>), L(<<"read", "c.bin">>),
     L(<<"read", "nofile">>), L(<<"read">>)}

MathLines ==
    {L(<<"math", "1", "+", "2", ":", "3", "Sum", "N">>),
     L(<<"math", "1", "*", "0.5", "=", "1", "Half", "mm">>),
     L(<<"math", "2", "/", "0", ":", "3", "Ratio", "N">>),
     L(<<"math", "2", "-", "1", ":", "-1", "Diff", "N">>),
     L(<<"math", "1", "^", "2", ":", "3", "Sum", "N">>),
     L(<<"math", "1", "+", "2", "?", "3", "Sum", "N">>),
     L(<<"math", "1", "^", "2", "?", "3", "Sum", "N">>),
     L(<<"math", "1", "+", "2">>),
     L(<<"math", "1", "+", "2", ":", "32", "Sum", "N">>)}

MathIntLines ==
    {L(<<"math_int", "1", "+", "2", ":", "3", "0", "2", "Sum", "N">>),
     L(<<"math_int", "3", "*", "2", "=", "3", "1", "3", "Twice", "N">>),
     L(<<"math_int", "0", "*", "0.5", "=", "0", "0", "2", "Half", "s">>),
     L(<<"math_int", "1", "^", "2", ":", "3", "0", "2", "Sum", "N">>),
     L(<<"math_int", "1", "+", "2", "?", "3", "0", "2", "Sum", "N">>),
     L(<<"math_int", "1", "+", "2", ":", "3">>)}

ColumnLines ==
    {L(<<"summation", "1", "4", "Cum", "N">>), L(<<"summation", "1">>),
     L(<<"summation", "2", "2", "Cum", "N">>),
     L(<<"power", "2", "1", "4", "Sq", "m">>), L(<<"power", "2">>),
     L(<<"zero", "1", "1">>), L(<<"zero", "1">>),
     L(<<"ec", "1", "2", "4", "0", "1", "2", "ec_disp", "mm">>),
     L(<<"ec", "1", "2">>),
     L(<<"offset_int", "2", "0", "2", "y">>), L(<<"offset_int", "2">>),
     L(<<"offset_int", "2", "0", "2", "x">>)}

RemoveLines ==
    {L(<<"r_col", "1">>), L(<<"r_col">>),
     L(<<"r_row", "1", "3">>), L(<<"r_row", "1", "-1">>), L(<<"r_row", "0", "1">>),
     L(<<"r_row", "1">>)}

\* line L(words) with text put in after its first pos lexemes
Insert(words, pos, text) ==
    SubSeq(L(words), 1, pos) \o text
    \o SubSeq(L(words), pos + 1, Len(L(words)))

\* line L(words) with text in place of lexeme pos
Replace(words, pos, text) ==
    SubSeq(L(words), 1, pos - 1) \o text
    \o SubSeq(L(words), pos + 1, Len(L(words)))

\* a comma after the keyword, after an argument, before an argument
CommaLines ==
    LET words == <<"math", "1", "+", "2", ":", "3", "Sum", "N">>
    IN  {Insert(words, 1, <<",">>), Insert(words, 3, <<",">>),
         Insert(words, 4, <<",">>)}

\* two spaces or a tab for a single space
WhitespaceLines ==
    LET words == <<"math", "1", "+", "2", ":", "3", "Sum", "N">>
    IN  {Replace(words, 2, <<" ", " ">>), Replace(words, 2, <<"\t">>),
         Replace(words, 4, <<"\t">>), Replace(words, 4, <<" ", " ">>)}

Lines == MarkerLines \cup ReadLines \cup MathLines \cup MathIntLines
         \cup ColumnLines \cup RemoveLines \cup CommaLines
         \cup WhitespaceLines

\* what doit does with each line: stop, or dispatch to a handler
EndLines == {raw \in Lines : is_end(raw)}

Dispatch == [raw \in Lines |-> parse_line(uncommented(raw))]

Handlers == command_functions \cup {"comment", "invalid"}

Handled == [handler \in Handlers |->
               {raw \in Lines \ EndLines : Dispatch[raw].handler = handler}]

\* the lines parse_line dispatches to a handler
LinesOf(handler) == Handled[handler]

\* the text the handler receives
Command(raw) == Dispatch[raw].command

\* the lines a script may hold
MaxLines == 2

(***************************************************************************)
(* The state: an XlookParser running doit.                                 *)
(*   self    the Column Store                                              *)
(*   status  "created", "running" (in the loop of doit), "returned",       *)
(*           "raised" (exc left doit)                                      *)
(*   lineno  the lines consumed                                            *)
(*   line    the line consumed last, as readlines() gave it                *)
(*   old     the Column Store before that line                             *)
(*   warned  the warnings issued for that line                             *)
(*   call    a direct call of a library function (none while doit runs):   *)
(*           its arguments, whether it has ended, and what it gave         *)
(***************************************************************************)
VARIABLES self, status, exc, lineno, line, old, warned, call

vars == <<self, status, exc, lineno, line, old, warned, call>>

NoCall == [state |-> "none"]

Init ==
    /\ self = init
    /\ status = "created"
    /\ exc = "none"
    /\ lineno = 0
    /\ line = <<>>
    /\ old = init
    /\ warned = <<>>
    /\ call = NoCall

\* with open(rfile, 'r') as f
doit_open ==
    /\ status = "created"
    /\ \E exists \in BOOLEAN :
          /\ status' = IF exists THEN "running" ELSE "raised"
          /\ exc' = IF exists THEN "none" ELSE "FileNotFoundError"
    /\ UNCHANGED <<self, lineno, line, old, warned, call>>

\* a variant in which the lines never run out
doit_eof_never ==
    /\ status = "running"
    /\ FALSE
    /\ UNCHANGED vars

\* the loop runs out of lines
doit_eof ==
    /\ status = "running"
    /\ status' = "returned"
    /\ UNCHANGED <<self, exc, lineno, line, old, warned, call>>

\* if line.strip() == 'end': return
doit_end ==
    /\ status = "running"
    /\ lineno < MaxLines
    /\ \E raw \in EndLines : line' = raw
    /\ lineno' = lineno + 1
    /\ old' = self
    /\ warned' = <<>>
    /\ status' = "returned"
    /\ UNCHANGED <<self, exc, call>>

\* self.parse_line(line) ran the handler, which left r
Dispatched(raw, r) ==
    /\ line' = raw
    /\ lineno' = lineno + 1
    /\ old' = self
    /\ self' = r.self
    /\ warned' = r.warned
    /\ exc' = r.exc
    /\ status' = IF r.exc = "none" THEN "running" ELSE "raised"
    /\ UNCHANGED call

Running == status = "running" /\ lineno < MaxLines

comment ==
    /\ Running
    /\ \E raw \in LinesOf("comment") : Dispatched(raw, Ret(self, <<>>, "none"))

begin ==
    /\ Running
    /\ \E raw \in LinesOf("begin") : Dispatched(raw, Ret(self, <<>>, "none"))

com_file ==
    /\ Running
    /\ \E raw \in LinesOf("com_file") : Dispatched(raw, Ret(self, <<>>, "none"))

invalid ==
    /\ Running
    /\ \E raw \in LinesOf("invalid") :
          Dispatched(raw, Ret(self, command_invalid(Command(raw)), "none"))

math ==
    /\ Running
    /\ \E raw \in LinesOf("math") : Dispatched(raw, command_math(self, Command(raw)))

math_int ==
    /\ Running
    /\ \E raw \in LinesOf("math_int"), u \in Garbage :
          Dispatched(raw, command_math_int(self, Command(raw), u))

summation ==
    /\ Running
    /\ \E raw \in LinesOf("summation") :
          Dispatched(raw, command_summation(self, Command(raw)))

power ==
    /\ Running
    /\ \E raw \in LinesOf("power") :
          Dispatched(raw, command_power(self, Command(raw)))

zero_ ==
    /\ Running
    /\ \E raw \in LinesOf("zero") : Dispatched(raw, command_zero(self, Command(raw)))

ec ==
    /\ Running
    /\ \E raw \in LinesOf("ec"), u \in Garbage :
          Dispatched(raw, command_ec(self, Command(raw), u))

r_col ==
    /\ Running
    /\ \E raw \in LinesOf("r_col"), u \in Garbage :
          Dispatched(raw, command_r_col(self, Command(raw), u))

offset_int ==
    /\ Running
    /\ \E raw \in LinesOf("offset_int") :
          Dispatched(raw, command_offset_int(self, Command(raw)))

r_row ==
    /\ Running
    /\ \E raw \in LinesOf("r_row") :
          Dispatched(raw, command_r_row(self, Command(raw)))

read ==
    /\ Running
    /\ \E raw \in LinesOf("read"), u \in Garbage :
          Dispatched(raw, command_read(self, Command(raw), u))

Next ==
    \/ doit_open \/ doit_eof \/ doit_end
    \/ comment \/ begin \/ com_file \/ invalid
    \/ math \/ math_int \/ summation \/ power \/ zero_ \/ ec
    \/ r_col \/ offset_int \/ r_row \/ read

Spec == Init /\ [][Next]_vars

\* doit is one sequential loop over a finite file: it does open the file, and
\* with no line left to dispatch it does leave the loop
FairSpec == Spec /\ WF_vars(doit_open) /\ WF_vars(doit_eof)

(***************************************************************************)
(* doit on the scripts of up to MaxCommands lines that load a file and     *)
(* then work on its columns.                                               *)
(***************************************************************************)
MaxCommands == 3

ScriptLines ==
    {L(<<"read", "a.bin">>),
     L(<<"math_int", "1", "+", "2", ":", "3", "0", "2", "Sum", "N">>),
     L(<<"math_int", "3", "*", "2", "=", "3", "1", "3", "Twice", "N">>),
     L(<<"math", "1", "+", "2", ":", "3", "Sum", "N">>),
     L(<<"summation", "1", "4", "Cum", "N">>),
     L(<<"zero", "1", "1">>),
     L(<<"offset_int", "2", "0", "2", "y">>),
     L(<<"r_row", "0", "1">>)}

\* self.parse_line(line), for the next line of such a script
doit_line ==
    /\ status = "running"
    /\ lineno < MaxCommands
    /\ \E raw \in ScriptLines, u \in Garbage :
          Dispatched(raw, action_function(self, Dispatch[raw].handler,
                                          Command(raw), u))

NextColumns == doit_open \/ doit_eof \/ doit_line

SpecColumns == Init /\ [][NextColumns]_vars

(***************************************************************************)
(* read_binary called directly, with each of its keyword arguments.        *)
(***************************************************************************)
Endianness == {"little", "big", "middle"}

UnrecognizedUnits == {"ignore", "error"}

InitRead ==
    /\ self = init
    /\ status = "created"
    /\ exc = "none"
    /\ lineno = 0
    /\ line = <<>>
    /\ old = init
    /\ warned = <<>>
    /\ call \in [state : {"called"}, file : LookFiles,
                 data_endianness : Endianness,
                 unrecognized_units : UnrecognizedUnits,
                 clean_header : BOOLEAN]

\* the call ends: it returns (data_dict, metadata) or raises
read_binary_ends ==
    /\ call.state = "called"
    /\ \E u \in Garbage :
          LET r == read_binary(call.file, call.data_endianness,
                               call.unrecognized_units, call.clean_header, u)
          IN  call' = [state |-> IF r.exc = "none" THEN "returned" ELSE "raised",
                       file |-> call.file,
                       data_endianness |-> call.data_endianness,
                       unrecognized_units |-> call.unrecognized_units,
                       clean_header |-> call.clean_header,
                       result |-> r,
                       words |-> IF r.exc = "none"
                                 THEN words_read(call.file, call.data_endianness,
                                                 call.clean_header)
                                 ELSE 0]
    /\ UNCHANGED <<self, status, exc, lineno, line, old, warned>>

NextRead == read_binary_ends

SpecRead == InitRead /\ [][NextRead]_vars

(***************************************************************************)
(* zero, remove_offset and elastic_correction called directly, on arrays   *)
(* the caller holds.                                                       *)
(***************************************************************************)
\* the identity of an array object of the caller
Caller == -2

MaxLen == 3

Elements == {I(0), I(1), I(4)}

Arrays == UNION {[1..n -> Elements] : n \in 0..MaxLen}

Argument(v) == [v |-> v, dt |-> "float64", ref |-> Caller]

Indices == -1..MaxLen

Windows == {0, 1, 2}

Values == {I(0), Q(3, 2)}

Modes == {"at", "before", "after"}

\* the call of test_remove_offset
TestRemoveOffset ==
    [data |-> Argument(<<I(0), I(1), I(2), I(4), I(4), I(10), I(10), I(11),
                         I(12), I(13), I(14)>>),
     start_idx |-> 4, end_idx |-> 6, set_between |-> set_between_default]

\* units of length and of force, and the units of the coefficient of the
\* k-th power of a load in l that gives a displacement in d
meter == I(1)

decimeter == Q(1, 10)

newton == I(1)

decanewton == I(10)

RECURSIVE per(_, _, _)
per(d, l, k) == IF k = 0 THEN d ELSE Div(per(d, l, k - 1), l)

Loads == {a \in Arrays : Len(a) \in 1..2 /\ \A i \in 1..Len(a) : a[i] # I(4)}

Displacements == {a \in Arrays : Len(a) \in 1..2 /\ \A i \in 1..Len(a) : a[i] # I(0)}

Coefficients == UNION {[1..n -> {I(0), I(1)}] : n \in 0..MaxLen}

Called(function, args) ==
    [state |-> "called", function |-> function, args |-> args]

InitCalc ==
    /\ self = init
    /\ status = "created"
    /\ exc = "none"
    /\ lineno = 0
    /\ line = <<>>
    /\ old = init
    /\ warned = <<>>
    /\ \/ \E a \in Arrays, zero_idx \in Indices, window \in Windows,
             value \in Values, mode \in Modes :
             call = Called("zero", [data |-> Argument(a), zero_idx |-> zero_idx,
                                    window |-> window, value |-> value,
                                    mode |-> mode])
       \/ \E a \in Arrays, start_idx, end_idx \in Indices, set_between \in BOOLEAN :
             call = Called("remove_offset",
                           [data |-> Argument(a), start_idx |-> start_idx,
                            end_idx |-> end_idx, set_between |-> set_between])
       \/ call = Called("remove_offset", TestRemoveOffset)
       \/ \E l \in Loads, d \in Displacements, c \in Coefficients,
             lu \in {newton, decanewton}, du \in {meter, decimeter},
             cl \in {newton, decanewton}, cd \in {meter, decimeter} :
             call = Called("elastic_correction",
                           [load |-> Quantity(Argument(l), lu),
                            displacement |-> Quantity(Argument(d), du),
                            coeffs |-> [k \in 1..Len(c) |->
                                           Quantity(c[k],
                                                    per(cd, cl, Len(c) - k))]])

\* what the caller's array a holds when the call has ended with r: the
\* returned array is the caller's when the function wrote into it
after_call(a, r) ==
    IF r.exc = "none" /\ r.a.ref = a.ref THEN r.a.v ELSE a.v

Outcome(r, after) ==
    [state |-> IF r.exc = "none" THEN "returned" ELSE "raised",
     function |-> call.function, args |-> call.args,
     result |-> r, after |-> after]

call_zero ==
    /\ call.state = "called" /\ call.function = "zero"
    /\ LET a == call.args
           r == zero(a.data, a.zero_idx, a.window, a.value, a.mode)
       IN  call' = Outcome(r, [data |-> after_call(a.data, r)])
    /\ UNCHANGED <<self, status, exc, lineno, line, old, warned>>

call_remove_offset ==
    /\ call.state = "called" /\ call.function = "remove_offset"
    /\ LET a == call.args
           r == remove_offset(a.data, a.start_idx, a.end_idx, a.set_between)
       IN  call' = Outcome(r, [data |-> after_call(a.data, r)])
    /\ UNCHANGED <<self, status, exc, lineno, line, old, warned>>

call_elastic_correction ==
    /\ call.state = "called" /\ call.function = "elastic_correction"
    /\ LET a == call.args
           r == elastic_correction(a.load, a.displacement, a.coeffs)
           m == IF r.exc = "none" THEN Return(r.a.m) ELSE r
       IN  call' = Outcome(r, [load |-> after_call(a.load.m, m),
                               displacement |-> after_call(a.displacement.m, m)])
    /\ UNCHANGED <<self, status, exc, lineno, line, old, warned>>

NextCalc == call_zero \/ call_remove_offset \/ call_elastic_correction

SpecCalc == InitCalc /\ [][NextCalc]_vars

(***************************************************************************)
(* The vocabulary of the claims: what a script line says, read off the     *)
(* line itself (not from parse_line), and what an observer sees of a       *)
(* Column Store (data, names and unit-strings; not array identities).      *)
(***************************************************************************)
\* the text of a line: what precedes '#', trimmed
TextOf(raw) ==
    LET hash == {i \in 1..Len(raw) : raw[i] = "#"}
        code == IF hash = {} THEN raw ELSE SubSeq(raw, 1, Min(hash) - 1)
    IN  strip(code)

\* its fields, separated by single spaces
Fields(raw) ==
    LET text == TextOf(raw)
        cut == <<0>> \o SelectSeq([i \in 1..Len(text) |-> i],
                                  LAMBDA i : text[i] = " ")
               \o <<Len(text) + 1>>
    IN  [k \in 1..(Len(cut) - 1) |-> SubSeq(text, cut[k] + 1, cut[k + 1] - 1)]

Keyword(raw) == Fields(raw)[1]

\* the number of fields each argument-taking command expects, keyword included
Expects ==
    (<<"math">> :> 8) @@ (<<"math_int">> :> 10) @@ (<<"summation">> :> 5)
    @@ (<<"power">> :> 6) @@ (<<"zero">> :> 3) @@ (<<"ec">> :> 9)
    @@ (<<"r_col">> :> 2) @@ (<<"offset_int">> :> 5) @@ (<<"r_row">> :> 3)
    @@ (<<"read">> :> 2)

Keywords == DOMAIN Expects \cup {<<"begin">>, <<"com_file">>}

IsBlank(raw) == TextOf(raw) = <<>>

IsEndLine(raw) == TextOf(raw) = <<"end">>

\* a line has been consumed and it was raw
Ran(raw) == lineno > 0 /\ line = raw

TooFew(raw) ==
    /\ ~IsBlank(raw) /\ ~IsEndLine(raw)
    /\ Keyword(raw) \in DOMAIN Expects
    /\ Len(Fields(raw)) < Expects[Keyword(raw)]

Unknown(raw) ==
    ~IsBlank(raw) /\ ~IsEndLine(raw) /\ Keyword(raw) \notin Keywords

\* a math or math_int line with all its fields and a bad operator or mode
BadOperator(raw) ==
    /\ ~IsBlank(raw)
    /\ Keyword(raw) \in {<<"math">>, <<"math_int">>}
    /\ Len(Fields(raw)) = Expects[Keyword(raw)]
    /\ \/ Fields(raw)[3] \notin {<<"*">>, <<"/">>, <<"+">>, <<"-">>}
       \/ Fields(raw)[5] \notin {<<":">>, <<"=">>}

\* data, name and unit-string of every slot are as before the line
StoreUnchanged ==
    \A i \in Slots : /\ self.data[i] = old.data[i]
                     /\ self.data_names[i] = old.data_names[i]
                     /\ self.data_units[i] = old.data_units[i]

\* doit went on after the line: it is in its loop or has returned at the end
\* of the file
WentOn == status \in {"running", "returned"}

(***************************************************************************)
(* C1: a line with a wrong argument count, an unknown keyword or an        *)
(* invalid operator/mode token never raises out of doit and never keeps    *)
(* the lines after it from being executed.  (Stated as the claim has it;   *)
(* command_math and command_math_int raise UnboundLocalError.)             *)
(***************************************************************************)
C1_MalformedLineNeverRaises ==
    \A raw \in Lines :
        Ran(raw) /\ (TooFew(raw) \/ Unknown(raw) \/ BadOperator(raw)) => WentOn

(***************************************************************************)
(* C2: a line of an argument-taking command with fewer fields than the     *)
(* command expects leaves data, names and unit-strings of all 32 slots     *)
(* unchanged, emits exactly one warning, and doit goes on.                 *)
(***************************************************************************)
C2_TooFewArguments ==
    \A raw \in Lines :
        Ran(raw) /\ TooFew(raw) => StoreUnchanged /\ Len(warned) = 1 /\ WentOn

C2_Witness ==
    /\ Ran(L(<<"math", "1", "+", "2">>))
    /\ status = "running"
    /\ old.data_names[1] = Str(<<"Time">>)

(***************************************************************************)
(* C3: a line whose first token is no keyword of the dispatch table emits  *)
(* exactly one warning, leaves all 32 slots unchanged and does not raise.  *)
(***************************************************************************)
C3_UnknownKeyword ==
    \A raw \in Lines :
        Ran(raw) /\ Unknown(raw) => StoreUnchanged /\ Len(warned) = 1 /\ WentOn

C3_Witness ==
    /\ Ran(L(<<"foo", "1", "2">>))
    /\ Len(warned) = 1
    /\ old.data_names[1] = Str(<<"Time">>)

(***************************************************************************)
(* C4: a math or math_int line with the right number of fields and a bad   *)
(* operator or mode is handled as an invalid command: a warning, no slot   *)
(* changed, the handler returns and the next line is executed.  (Stated    *)
(* as the claim has it; the handlers go on after command_invalid.)         *)
(***************************************************************************)
C4_BadOperatorIsInvalidCommand ==
    \A raw \in Lines :
        Ran(raw) /\ BadOperator(raw)
            => /\ Len(warned) >= 1
               /\ \A w \in 1..Len(warned) : warned[w].msg = "Invalid Command"
               /\ StoreUnchanged
               /\ exc = "none" /\ WentOn

(***************************************************************************)
(* C5: doit halts at the first line that, cut at '#' and trimmed, is       *)
(* `end`: the store is the one before that line, no warning is issued,     *)
(* and nothing is dispatched afterwards.                                   *)
(***************************************************************************)
C5_EndHalts ==
    /\ \A raw \in Lines :
          Ran(raw) /\ IsEndLine(raw)
              => status = "returned" /\ StoreUnchanged /\ warned = <<>>
    /\ status = "returned" => ~ENABLED Next

C5_Witness ==
    /\ Ran(<<" ", "end", " ", "#", "stop", "\n">>)
    /\ status = "returned"
    /\ self.data_names[1] = Str(<<"Time">>)

(***************************************************************************)
(* Arguments of the math lines, as the claims read them.                   *)
(***************************************************************************)
\* a token that names a slot, and the slot (Python list indexing)
IsSlot(tok) == is_int(tok) /\ int(tok) \in (-max_cols)..(max_cols - 1)

SlotOf(tok) == (int(tok) + max_cols) % max_cols

Elementwise(op, a, b) ==
    CASE op = <<"+">> -> Add(a, b)
      [] op = <<"-">> -> Sub(a, b)
      [] op = <<"*">> -> Mul(a, b)
      [] op = <<"/">> -> Div(a, b)

\* fields 2..6 of a math or math_int line are  x op y mode out, with y a slot
\* as long as x (mode ':') or a number (mode '=')
ValidOperands(f) ==
    /\ IsSlot(f[2]) /\ IsSlot(f[6])
    /\ f[3] \in {<<"*">>, <<"/">>, <<"+">>, <<"-">>}
    /\ \/ /\ f[5] = <<":">>
          /\ IsSlot(f[4])
          /\ Len(old.data[SlotOf(f[4])]) = Len(old.data[SlotOf(f[2])])
       \/ f[5] = <<"=">> /\ is_float(f[4])

\* element i of x op y on the store before the line
Computed(f, i) ==
    Elementwise(f[3], old.data[SlotOf(f[2])][i],
                IF f[5] = <<":">> THEN old.data[SlotOf(f[4])][i] ELSE float(f[4]))

\* every slot but out is as before the line
OthersUnchanged(out) ==
    \A k \in Slots \ {out} : /\ self.data[k] = old.data[k]
                             /\ self.data_names[k] = old.data_names[k]
                             /\ self.data_units[k] = old.data_units[k]

ValidMath(raw) ==
    /\ ~IsBlank(raw) /\ Keyword(raw) = <<"math">>
    /\ Len(Fields(raw)) = 8
    /\ ValidOperands(Fields(raw))

(***************************************************************************)
(* C6: after a valid `math x op y mode out name unit` slot out holds the   *)
(* elementwise x op y (y a slot for ':', a number for '='), its name and   *)
(* unit-string are the ones given, x is unchanged when out # x, and every  *)
(* other slot is unchanged.                                                *)
(***************************************************************************)
C6_Math ==
    \A raw \in Lines :
        Ran(raw) /\ ValidMath(raw) =>
            LET f == Fields(raw)
                x == SlotOf(f[2])
                out == SlotOf(f[6])
            IN  /\ exc = "none" /\ WentOn
                /\ self.data[out] = [i \in 1..Len(old.data[x]) |-> Computed(f, i)]
                /\ self.data_names[out] = Str(f[7])
                /\ self.data_units[out] = Str(f[8])
                /\ OthersUnchanged(out)

\* Load - Time of a.bin went to slot 31
C6_Witness ==
    /\ Ran(L(<<"math", "2", "-", "1", ":", "-1", "Diff", "N">>))
    /\ self.data[31] = <<I(9), I(18), I(27)>>
    /\ self.data[1] = <<I(1), I(2), I(3)>>

ValidMathInt(raw) ==
    /\ ~IsBlank(raw) /\ Keyword(raw) = <<"math_int">>
    /\ Len(Fields(raw)) = 10
    /\ ValidOperands(Fields(raw))
    /\ is_int(Fields(raw)[7]) /\ is_int(Fields(raw)[8])
    /\ 0 <= int(Fields(raw)[7]) /\ int(Fields(raw)[7]) <= int(Fields(raw)[8])

(***************************************************************************)
(* C7: after a valid `math_int x op y mode out start stop name unit` slot  *)
(* out holds the old x column with exactly the indices of [start, stop)    *)
(* replaced by x op y and every other index as in the old x; its name and  *)
(* unit-string are the ones given; out = x or not.  (Stated as the claim   *)
(* has it; the write into an int64 column truncates.)                      *)
(***************************************************************************)
C7_MathInt ==
    \A raw \in Lines :
        Ran(raw) /\ ValidMathInt(raw) =>
            LET f == Fields(raw)
                x == SlotOf(f[2])
                out == SlotOf(f[6])
            IN  /\ exc = "none" /\ WentOn
                /\ self.data[out] =
                       [i \in 1..Len(old.data[x]) |->
                           IF int(f[7]) < i /\ i <= int(f[8])
                           THEN Computed(f, i) ELSE old.data[x][i]]
                /\ self.data_names[out] = Str(f[9])
                /\ self.data_units[out] = Str(f[10])
(***************************************************************************)
(* A binary file as the claims read it: its active header columns, in      *)
(* header order, and where the words of each lie in the data section.      *)
(***************************************************************************)
\* a header field: the text before the NUL, trimmed
FieldText(text) ==
    LET nul == {i \in 1..Len(text) : text[i] = "NUL"}
    IN  strip(IF nul = {} THEN text ELSE SubSeq(text, 1, Min(nul) - 1))

ActiveColumns(file) ==
    SelectSeq(file.headers,
              LAMBDA h : FieldText(h.chname) = <<>>
                         \/ FieldText(h.chname)[1] # "no_val")

RECURSIVE WordsBefore(_, _)
WordsBefore(active, i) ==
    IF i = 1 THEN 0 ELSE WordsBefore(active, i - 1) + active[i - 1].nelem

RegistryName(unit) ==
    IF unit \in DOMAIN UnitRegistry THEN UnitRegistry[unit]
    ELSE <<"dimensionless">>

\* the line read a file that exists, and the read completed
HasRead(raw) ==
    /\ Ran(raw) /\ ~IsBlank(raw)
    /\ Keyword(raw) = <<"read">> /\ Len(Fields(raw)) = 2
    /\ Fields(raw)[2] \in DOMAIN Files
    /\ exc = "none"

\* the names of the active columns differ and none is rec_num
DistinctNames(active) ==
    /\ \A i, j \in 1..Len(active) :
          FieldText(active[i].chname) = FieldText(active[j].chname) => i = j
    /\ \A i \in 1..Len(active) : FieldText(active[i].chname) # <<"rec_num">>

\* slot k holds the values, the name and the registry's unit name of the
\* i-th active column
HoldsColumn(k, file, active, i) ==
    /\ Len(self.data[k]) = file.num_recs
    /\ \A j \in 1..active[i].nelem :
          self.data[k][j] = file.data[WordsBefore(active, i) + j].little
    /\ self.data_names[k] = Str(FieldText(active[i].chname))
    /\ self.data_units[k] = Str(RegistryName(FieldText(active[i].chunits)))

(***************************************************************************)
(* C8, as amended: after `read <path>` has completed on a file with n      *)
(* active header columns of distinct names other than rec_num, slot 0      *)
(* holds the record numbers 0 .. num_recs-1 under the name rec_num with    *)
(* unit-string dimensionless, and slot i+1 holds the values, the name and  *)
(* the unit registry's name of the unit of the i-th active column, for     *)
(* every i in 0 .. n-1.                                                    *)
(***************************************************************************)
C8_ReadLoadsAfterRecNum ==
    \A raw \in Lines :
        HasRead(raw) /\ DistinctNames(ActiveColumns(Files[Fields(raw)[2]])) =>
            LET file == Files[Fields(raw)[2]]
                active == ActiveColumns(file)
            IN  /\ self.data[0] = [j \in 1..file.num_recs |-> I(j - 1)]
                /\ self.data_names[0] = Str(<<"rec_num">>)
                /\ self.data_units[0] = Str(<<"dimensionless">>)
                /\ \A i \in 1..Len(active) : HoldsColumn(i, file, active, i)

\* b.bin: Disp in mm went to slot 1 as millimeter
C8_Witness ==
    /\ HasRead(L(<<"read", "b.bin">>))
    /\ self.data[1] = <<I(4), I(6)>>
    /\ self.data_names[1] = Str(<<"Disp">>)
    /\ self.data_units[1] = Str(<<"millimeter">>)
    /\ self.data_names[2] = Str(<<"Force">>)

(***************************************************************************)
(* C8 as the claim has it: after `read <path>` on a file with n active     *)
(* header columns slot i holds the values, the name and the unit-string    *)
(* of the i-th header column, the first one in slot 0.                     *)
(***************************************************************************)
C8_ReadLoadsFromSlotZero ==
    \A raw \in Lines :
        HasRead(raw) =>
            LET file == Files[Fields(raw)[2]]
                active == ActiveColumns(file)
            IN  \A i \in 1..Len(active) :
                    /\ Len(self.data[i - 1]) = file.num_recs
                    /\ \A j \in 1..active[i].nelem :
                          self.data[i - 1][j]
                              = file.data[WordsBefore(active, i) + j].little
                    /\ self.data_names[i - 1] = Str(FieldText(active[i].chname))
                    /\ self.data_units[i - 1] = Str(FieldText(active[i].chunits))

(***************************************************************************)
(* C9: after `r_row start end` every slot holds its old column without the *)
(* rows of [start, end), the rest in order; end = -1 removes through the   *)
(* last row; it does not fail whatever the lengths of the slots; names and *)
(* unit-strings stay.                                                      *)
(***************************************************************************)
ValidRRow(raw) ==
    /\ ~IsBlank(raw) /\ Keyword(raw) = <<"r_row">>
    /\ Len(Fields(raw)) = 3
    /\ is_int(Fields(raw)[2]) /\ is_int(Fields(raw)[3])
    /\ int(Fields(raw)[2]) >= 0 /\ int(Fields(raw)[3]) >= -1

\* v without the rows start <= row < end (0-based), all rows from start on
\* when end is -1
WithoutRows(v, start, end) ==
    LET rows == SelectSeq([i \in 1..Len(v) |-> i - 1],
                          LAMBDA row : ~(start <= row /\ (end = -1 \/ row < end)))
    IN  [k \in 1..Len(rows) |-> v[rows[k] + 1]]

C9_RRow ==
    \A raw \in Lines :
        Ran(raw) /\ ValidRRow(raw) =>
            /\ exc = "none" /\ WentOn
            /\ \A k \in Slots :
                  /\ self.data[k] = WithoutRows(old.data[k], int(Fields(raw)[2]),
                                                int(Fields(raw)[3]))
                  /\ self.data_names[k] = old.data_names[k]
                  /\ self.data_units[k] = old.data_units[k]

\* rows 1 and 2 of a.bin went, the other slots had no rows
C9_Witness ==
    /\ Ran(L(<<"r_row", "1", "3">>))
    /\ old.data[2] = <<I(10), I(20), I(30)>>
    /\ self.data[2] = <<I(10)>>
    /\ self.data[3] = <<>>
    /\ self.data_names[2] = Str(<<"Load">>)

(***************************************************************************)
(* C10: after `r_col k` slot k holds an empty array (length 0), its name   *)
(* and unit-string are absent, and every other slot is unchanged.  (Stated *)
(* as the claim has it; np.empty_like keeps the length.)                   *)
(***************************************************************************)
C10_RColEmpties ==
    \A raw \in Lines :
        /\ Ran(raw) /\ ~IsBlank(raw)
        /\ Keyword(raw) = <<"r_col">> /\ Len(Fields(raw)) = 2
        /\ IsSlot(Fields(raw)[2])
        => LET k == SlotOf(Fields(raw)[2])
           IN  /\ exc = "none" /\ WentOn
               /\ self.data[k] = <<>>
               /\ self.data_names[k] = None
               /\ self.data_units[k] = None
               /\ OthersUnchanged(k)
(***************************************************************************)
(* Arguments of an ec line, as the claims read them:                       *)
(*   ec disp load out first last slope name unit                           *)
(***************************************************************************)
ValidEc(raw) ==
    LET f == Fields(raw)
    IN  /\ ~IsBlank(raw) /\ Keyword(raw) = <<"ec">>
        /\ Len(f) = 9
        /\ IsSlot(f[2]) /\ IsSlot(f[3]) /\ IsSlot(f[4])
        /\ is_int(f[5]) /\ is_int(f[6])
        /\ 0 <= int(f[5]) /\ int(f[5]) <= int(f[6])
        /\ is_float(f[7]) /\ float(f[7]) # I(0)
        /\ Len(old.data[SlotOf(f[2])]) = Len(old.data[SlotOf(f[3])])

\* the elastically corrected displacement at element i: disp - (1/slope)*load
ElasticallyCorrected(f, i) ==
    Sub(old.data[SlotOf(f[2])][i],
        Mul(Div(I(1), float(f[7])), old.data[SlotOf(f[3])][i]))

(***************************************************************************)
(* C11: after `ec disp load out first last slope name unit` each replaced  *)
(* element of slot out is disp[i] - (1/slope)*load[i].  (Stated as the     *)
(* claim has it, for the elements of [first, last); command_ec subtracts   *)
(* the corrected displacement from the displacement once more.)            *)
(***************************************************************************)
C11_EcCorrects ==
    \A raw \in Lines :
        Ran(raw) /\ ValidEc(raw) =>
            LET f == Fields(raw)
                out == SlotOf(f[4])
            IN  /\ exc = "none"
                /\ \A i \in 1..Len(old.data[SlotOf(f[2])]) :
                      int(f[5]) < i /\ i <= int(f[6])
                          => self.data[out][i] = ElasticallyCorrected(f, i)

\* what line 593 leaves at element i:  disp - elastic_correction(load, disp)
EcComputed(f, i) ==
    Sub(old.data[SlotOf(f[2])][i], ElasticallyCorrected(f, i))

(***************************************************************************)
(* C12: after `ec disp load out first last slope name unit` exactly the    *)
(* elements first .. last (both included) of the displacement column are   *)
(* replaced in slot out, every other element is the displacement's, name   *)
(* and unit-string are the ones given, and slot disp is unchanged when     *)
(* out # disp.  (Stated as the claim has it, a replaced element being the  *)
(* one command_ec computed; the slice first:last leaves element last.)     *)
(***************************************************************************)
C12_EcRangeInclusive ==
    \A raw \in Lines :
        Ran(raw) /\ ValidEc(raw) =>
            LET f == Fields(raw)
                disp == SlotOf(f[2])
                out == SlotOf(f[4])
            IN  /\ exc = "none"
                /\ Len(self.data[out]) = Len(old.data[disp])
                /\ \A i \in 1..Len(old.data[disp]) :
                      self.data[out][i] =
                          IF int(f[5]) < i /\ i <= int(f[6]) + 1
                          THEN EcComputed(f, i) ELSE old.data[disp][i]
                /\ self.data_names[out] = Str(f[8])
                /\ self.data_units[out] = Str(f[9])
                /\ out # disp => self.data[disp] = old.data[disp]
(***************************************************************************)
(* C12, as amended: after `ec disp load out first last slope name unit`    *)
(* exactly the elements of the half-open range [first, last) are replaced  *)
(* in slot out by what command_ec computed; every other element, element   *)
(* last among them, is the displacement's; name and unit-string are the    *)
(* ones given, and slot disp is unchanged when out # disp.                 *)
(***************************************************************************)
C12_EcRangeHalfOpen ==
    \A raw \in Lines :
        Ran(raw) /\ ValidEc(raw) =>
            LET f == Fields(raw)
                disp == SlotOf(f[2])
                out == SlotOf(f[4])
            IN  /\ exc = "none"
                /\ Len(self.data[out]) = Len(old.data[disp])
                /\ \A i \in 1..Len(old.data[disp]) :
                      IF int(f[5]) < i /\ i <= int(f[6])
                      THEN old.dtype[disp] = "float64"
                               => self.data[out][i] = EcComputed(f, i)
                      ELSE self.data[out][i] = old.data[disp][i]
                /\ self.data_names[out] = Str(f[8])
                /\ self.data_units[out] = Str(f[9])
                /\ out # disp => self.data[disp] = old.data[disp]

\* a.bin, first 0, last 1: element 0 replaced, element 1 kept
C12_Witness ==
    /\ Ran(L(<<"ec", "1", "2", "4", "0", "1", "2", "ec_disp", "mm">>))
    /\ old.data[1] = <<I(1), I(2), I(3)>>
    /\ self.data[4] = <<I(5), I(2), I(3)>>
    /\ self.data[1] = <<I(1), I(2), I(3)>>
(***************************************************************************)
(* C13: after `summation in out name unit` slot out is as long as the      *)
(* input column and its element i is the sum of the input's elements       *)
(* 0 .. i; name and unit-string of out are the ones given, and slot in is  *)
(* unchanged when out # in.                                                *)
(***************************************************************************)
ValidSummation(raw) ==
    /\ ~IsBlank(raw) /\ Keyword(raw) = <<"summation">>
    /\ Len(Fields(raw)) = 5
    /\ IsSlot(Fields(raw)[2]) /\ IsSlot(Fields(raw)[3])

C13_Summation ==
    \A raw \in Lines :
        Ran(raw) /\ ValidSummation(raw) =>
            LET f == Fields(raw)
                in == SlotOf(f[2])
                out == SlotOf(f[3])
            IN  /\ exc = "none" /\ WentOn
                /\ Len(self.data[out]) = Len(old.data[in])
                /\ \A i \in 1..Len(old.data[in]) :
                      self.data[out][i] = sum(SubSeq(old.data[in], 1, i))
                /\ self.data_names[out] = Str(f[4])
                /\ self.data_units[out] = Str(f[5])
                /\ out # in => self.data[in] = old.data[in]

\* the running sum of Time of a.bin went to slot 4
C13_Witness ==
    /\ Ran(L(<<"summation", "1", "4", "Cum", "N">>))
    /\ self.data[4] = <<I(1), I(3), I(6)>>
    /\ self.data[1] = <<I(1), I(2), I(3)>>
    /\ self.data_names[4] = Str(<<"Cum">>)

(***************************************************************************)
(* C14: after `zero c r`, r an index of column c, every element k of slot  *)
(* c is old[k] - old[r]; name and unit-string of slot c, and data, name    *)
(* and unit-string of every other slot, are unchanged.                     *)
(***************************************************************************)
ValidZero(raw) ==
    LET f == Fields(raw)
    IN  /\ ~IsBlank(raw) /\ Keyword(raw) = <<"zero">>
        /\ Len(f) = 3
        /\ IsSlot(f[2]) /\ is_int(f[3])
        /\ 0 <= int(f[3]) /\ int(f[3]) < Len(old.data[SlotOf(f[2])])

C14_Zero ==
    \A raw \in Lines :
        Ran(raw) /\ ValidZero(raw) =>
            LET f == Fields(raw)
                c == SlotOf(f[2])
            IN  /\ exc = "none" /\ WentOn
                /\ Len(self.data[c]) = Len(old.data[c])
                /\ \A k \in 1..Len(old.data[c]) :
                      self.data[c][k]
                          = Sub(old.data[c][k], old.data[c][int(f[3]) + 1])
                /\ self.data_names[c] = old.data_names[c]
                /\ self.data_units[c] = old.data_units[c]
                /\ OthersUnchanged(c)

\* Time of a.bin zeroed at record 1
C14_Witness ==
    /\ Ran(L(<<"zero", "1", "1">>))
    /\ old.data[1] = <<I(1), I(2), I(3)>>
    /\ self.data[1] = <<I(-1), I(0), I(1)>>
    /\ self.data_names[1] = Str(<<"Time">>)
(***************************************************************************)
(* C15: in every reachable state the Column Store has exactly the 32       *)
(* slots 0 .. 31 (data, name and unit-string each), and a freshly          *)
(* constructed interpreter holds an empty array, no name and no            *)
(* unit-string in each of them.                                            *)
(***************************************************************************)
C15_ThirtyTwoSlots ==
    /\ DOMAIN self.data = 0..31
    /\ DOMAIN self.data_names = 0..31
    /\ DOMAIN self.data_units = 0..31
    /\ status = "created" =>
          \A i \in 0..31 : /\ self.data[i] = <<>>
                           /\ self.data_names[i] = None
                           /\ self.data_units[i] = None

\* two lines have changed slots, and slot 31 is there
C15_Witness ==
    /\ lineno = 2 /\ exc = "none"
    /\ self.data[1] # <<>> /\ self.data[31] # <<>>
    /\ DOMAIN self.data = 0..31
(***************************************************************************)
(* What a line does to a store, for comparing lines: the outcomes          *)
(* [self, warned, exc] that doit's loop body can have for it.              *)
(***************************************************************************)
Outcomes(store, raw) ==
    LET d == parse_line(uncommented(raw))
    IN  {action_function(store, d.handler, d.command, u) : u \in Garbage}

\* the messages warned, without the text of the line they quote
Messages(w) == [k \in 1..Len(w) |-> w[k].msg]

\* the line consumed last did to the store what line raw does
SameAs(raw) ==
    \E r \in Outcomes(old, raw) :
        /\ \A i \in Slots : /\ self.data[i] = r.self.data[i]
                            /\ self.data_names[i] = r.self.data_names[i]
                            /\ self.data_units[i] = r.self.data_units[i]
        /\ Messages(warned) = Messages(r.warned)
        /\ exc = r.exc

WithoutCommas(raw) == SelectSeq(raw, LAMBDA c : c # ",")

(***************************************************************************)
(* C16: a line got from a command line by inserting commas anywhere has    *)
(* the same effect on the Column Store and gives the same warnings as the  *)
(* line without the commas.  (Stated as the claim has it; parse_line       *)
(* takes the keyword before it drops the commas.)                          *)
(***************************************************************************)
C16_CommasIgnored ==
    \A raw \in Lines :
        /\ Ran(raw)
        /\ WithoutCommas(raw) # raw
        /\ WithoutCommas(raw) \in Lines \ EndLines
        => SameAs(WithoutCommas(raw))

\* the words of a line, and the line with single spaces between them
SingleSpaced(raw) == L(SelectSeq(raw, LAMBDA c : c \notin Whitespace))

(***************************************************************************)
(* C17: a line whose keyword and arguments are separated by runs of        *)
(* whitespace (several spaces, a tab) goes to the same handler, passes     *)
(* the same argument-count check and has the same effect as the line       *)
(* with single spaces.  (Stated as the claim has it; the code splits at    *)
(* each single space only.)                                                *)
(***************************************************************************)
C17_WhitespaceRuns ==
    \A raw \in Lines :
        /\ Ran(raw)
        /\ \A i \in 1..Len(raw) : raw[i] \notin {",", "#"}
        /\ SingleSpaced(raw) # raw
        /\ SingleSpaced(raw) \in Lines \ EndLines
        => SameAs(SingleSpaced(raw))
(***************************************************************************)
(* A look file and a call of read_binary, as the claims read them.         *)
(***************************************************************************)
\* a header field as read_binary keeps it: the text before the NUL, trimmed
\* when the header is cleaned
KeptText(text, clean_header) ==
    LET nul == {i \in 1..Len(text) : text[i] = "NUL"}
        t == IF nul = {} THEN text ELSE SubSeq(text, 1, Min(nul) - 1)
    IN  IF clean_header THEN strip(t) ELSE t

\* the header blocks whose name does not start with no_val, in block order
Contributing(file, clean_header) ==
    SelectSeq(file.headers,
              LAMBDA h : LET name == KeptText(h.chname, clean_header)
                         IN  name = <<>> \/ name[1] # "no_val")

\* the unit-string the header gives is one the registry knows
Resolves(unit) == strip(KeptText(unit, FALSE)) \in DOMAIN UnitRegistry

\* the file is one read_binary can decode: the column count is the number of
\* contributing blocks, named differently and not rec_num, and the data
\* section holds the elements the headers announce
Decodable(file, clean_header) ==
    LET cols == Contributing(file, clean_header)
    IN  /\ file.num_recs >= 0
        /\ Len(cols) = file.num_cols
        /\ \A i \in 1..Len(cols) :
              /\ cols[i].nelem \in 0..file.num_recs
              /\ WordsBefore(cols, i) + cols[i].nelem <= Len(file.data)
              /\ KeptText(cols[i].chname, clean_header) # <<"rec_num">>
              /\ \A j \in 1..Len(cols) :
                    KeptText(cols[i].chname, clean_header)
                        = KeptText(cols[j].chname, clean_header) => i = j

Ended == call.state \in {"returned", "raised"}

\* no unit makes the call fail
UnitsPass ==
    \/ call.unrecognized_units = "ignore"
    \/ \A i \in 1..Len(Contributing(call.file, call.clean_header)) :
          Resolves(Contributing(call.file, call.clean_header)[i].chunits)

(***************************************************************************)
(* C18: read_binary goes through all 32 header blocks of a decodable file; *)
(* a block gives a column of the result exactly if its name does not start *)
(* with no_val, and the columns are in the returned mapping in             *)
(* header-block order (after rec_num).                                     *)
(***************************************************************************)
C18_HeaderBlocks ==
    Ended /\ Decodable(call.file, call.clean_header) /\ UnitsPass =>
        LET cols == Contributing(call.file, call.clean_header)
        IN  /\ call.state = "returned"
            /\ Len(call.result.data_dict) = Len(cols) + 1
            /\ \A i \in 1..Len(cols) :
                  call.result.data_dict[i + 1].name
                      = KeptText(cols[i].chname, call.clean_header)

\* block 1 and block 32 of FileC gave the columns, in that order
C18_Witness ==
    /\ call.state = "returned"
    /\ call.file = FileC
    /\ Len(call.result.data_dict) = 3
    /\ call.result.data_dict[2].name = <<"Time">>
    /\ call.result.data_dict[3].name = <<"Load">>

(***************************************************************************)
(* C19: whatever the header-trimming flag, the metadata read_binary        *)
(* returns holds the experiment name, the record count, the column count   *)
(* and the two unused integer fields.  (Stated as the claim has it; the    *)
(* name is stored only when the flag is set.)                              *)
(***************************************************************************)
C19_MetadataComplete ==
    call.state = "returned" =>
        {"name", "number of records", "number of columns", "swp", "dtime"}
            \subseteq DOMAIN call.result.metadata

(***************************************************************************)
(* C20: a unit that cannot be resolved gives, under 'ignore', a warning    *)
(* naming the unit and the column with dimensionless units, and under      *)
(* 'error' a failure naming the unit and no mapping; when every unit       *)
(* resolves the policy changes nothing.  A column is found in the mapping  *)
(* by its place, for files whose columns are named differently.            *)
(***************************************************************************)
C20_UnitPolicy ==
    LET cols == Contributing(call.file, call.clean_header)
        unresolved == {i \in 1..Len(cols) : ~Resolves(cols[i].chunits)}
        r == call.result
    IN  /\ /\ call.state = "returned" /\ call.unrecognized_units = "ignore"
           /\ Decodable(call.file, call.clean_header)
           =>
              \A i \in unresolved :
                  /\ \E w \in 1..Len(r.warned) :
                        /\ r.warned[w].msg = "Unknown unit"
                        /\ r.warned[w].about
                               = KeptText(cols[i].chunits, call.clean_header)
                  /\ r.data_dict[i + 1].units = <<"dimensionless">>
        /\ /\ Ended /\ Decodable(call.file, call.clean_header)
           /\ call.unrecognized_units = "error" /\ unresolved # {}
           => /\ call.state = "raised"
              /\ r.exc = "UndefinedUnitError"
              /\ r.unit = KeptText(cols[Min(unresolved)].chunits,
                                   call.clean_header)
              /\ "data_dict" \notin DOMAIN r
        /\ call.state = "returned" /\ Decodable(call.file, call.clean_header) =>
              \A i \in (1..Len(cols)) \ unresolved :
                  /\ r.data_dict[i + 1].units
                         = UnitRegistry[strip(KeptText(cols[i].chunits, FALSE))]
                  /\ \A w \in 1..Len(r.warned) :
                         r.warned[w].about
                             # KeptText(cols[i].chunits, call.clean_header)
        /\ Ended /\ unresolved = {} =>
              /\ r.warned = <<>>
              /\ \A policy \in UnrecognizedUnits : \E u \in Garbage :
                    r = read_binary(call.file, call.data_endianness, policy,
                                    call.clean_header, u)

\* FileB under 'ignore': Force in bogus came back dimensionless, with a warning
C20_Witness ==
    /\ call.state = "returned"
    /\ call.file = FileB /\ call.unrecognized_units = "ignore"
    /\ call.result.data_dict[3].name = <<"Force">>
    /\ call.result.data_dict[3].units = <<"dimensionless">>
    /\ call.result.data_dict[2].units = <<"millimeter">>
    /\ Len(call.result.warned) = 1
(***************************************************************************)
(* C21: in the data section read_binary takes, for each active column in   *)
(* header order, that column's own element count of 8-byte values (not the *)
(* record count), the j-th value read for a column going to row j of that  *)
(* column; the values taken in all are the sum of the element counts.      *)
(* (For a byte order read_binary decodes: 'little' or 'big'.)              *)
(***************************************************************************)
C21_DataSection ==
    /\ call.state = "returned"
    /\ call.data_endianness \in {"little", "big"}
    /\ Decodable(call.file, call.clean_header)
    => LET cols == Contributing(call.file, call.clean_header)
       IN  /\ \A i \in 1..Len(cols) : \A j \in 1..cols[i].nelem :
                  call.result.data_dict[i + 1].v[j]
                      = call.file.data[WordsBefore(cols, i) + j]
                                      [call.data_endianness]
           /\ call.words = WordsBefore(cols, Len(cols) + 1)

\* FileF: one value for Disp, then two for Force, three of the four in all
C21_Witness ==
    /\ call.state = "returned"
    /\ call.file = FileF /\ call.data_endianness = "big"
    /\ call.result.data_dict[2].v[1] = I(1)
    /\ call.result.data_dict[3].v = <<I(2), I(3)>>
    /\ call.words = 3
(***************************************************************************)
(* C22: with no script file doit fails at once and runs no command; a read *)
(* line naming a binary file that is not there makes doit fail at that     *)
(* line, with the Column Store as it was before the line; after a failure  *)
(* no line is executed.                                                    *)
(***************************************************************************)
\* the line is `read <path>` and no file has that path
ReadsMissing(raw) ==
    /\ ~IsBlank(raw) /\ ~IsEndLine(raw)
    /\ Keyword(raw) = <<"read">> /\ Len(Fields(raw)) = 2
    /\ Fields(raw)[2] \notin DOMAIN Files

C22_MissingFiles ==
    /\ [](/\ lineno = 0 /\ status \notin {"created", "running", "returned"} =>
                /\ status = "raised" /\ exc = "FileNotFoundError"
                /\ self = init /\ warned = <<>>
          /\ \A raw \in Lines : Ran(raw) /\ ReadsMissing(raw) =>
                /\ status = "raised" /\ exc = "FileNotFoundError"
                /\ StoreUnchanged)
    /\ [][status # "raised"]_vars

\* the second line read a missing file, after the first had loaded one
C22_Witness ==
    /\ lineno = 2 /\ ReadsMissing(line)
    /\ status = "raised"
    /\ self # init /\ self.data[1] # <<>>
(***************************************************************************)
(* A direct call of a numeric transform, as the claims read it: indices    *)
(* count from 0, a is the array the caller passed.                         *)
(***************************************************************************)
CallOf(function) == call.state \in {"returned", "raised"} /\ call.function = function

InBounds(a, i) == 0 <= i /\ i < Len(a)

\* a[k], k from 0
At(a, k) == a[k + 1]

RECURSIVE Total(_)
Total(a) == IF a = <<>> THEN I(0) ELSE Add(a[1], Total(Tail(a)))

(***************************************************************************)
(* C23: zero(a, i, value=v), i an index of a, gives a[k] - a[i] + v at     *)
(* every k in mode 'at'; in mode 'before' v at every k < i and             *)
(* a[k] - a[i] + v at k >= i; in mode 'after' v at every k >= i and        *)
(* a[k] - a[i] + v at k < i.                                               *)
(***************************************************************************)
C23_ZeroModes ==
    CallOf("zero") /\ call.args.window = 0
    /\ InBounds(call.args.data.v, call.args.zero_idx)
    => LET a == call.args.data.v
           i == call.args.zero_idx
           v == call.args.value
           shifted(k) == Add(Sub(At(a, k), At(a, i)), v)
       IN  /\ call.state = "returned"
           /\ Len(call.result.a.v) = Len(a)
           /\ \A k \in 0..(Len(a) - 1) :
                 At(call.result.a.v, k) =
                     CASE call.args.mode = "at" -> shifted(k)
                       [] call.args.mode = "before" ->
                              IF k < i THEN v ELSE shifted(k)
                       [] call.args.mode = "after" ->
                              IF k >= i THEN v ELSE shifted(k)

\* zero(<<1, 4, 0>>, 1, value=3/2, mode='before') gave <<3/2, 3/2, -5/2>>
C23_Witness ==
    /\ CallOf("zero") /\ call.state = "returned"
    /\ call.args.data.v = <<I(1), I(4), I(0)>> /\ call.args.zero_idx = 1
    /\ call.args.window = 0 /\ call.args.mode = "before"
    /\ call.result.a.v = <<Q(3, 2), Q(3, 2), Q(-5, 2)>>

(***************************************************************************)
(* C24: zero(a, i, window=w), w > 0 and i an index of a, subtracts from    *)
(* every element the mean of the elements that exist among the indices     *)
(* i-w .. i+w, also when i is less than w from the start or the end of a.  *)
(* (Stated as the claim has it; near the start the slice a[i-w : i+w+1]    *)
(* has a negative start, which counts from the end.)                       *)
(***************************************************************************)
C24_ZeroWindow ==
    CallOf("zero") /\ call.args.window > 0 /\ call.args.mode = "at"
    /\ InBounds(call.args.data.v, call.args.zero_idx)
    => LET a == call.args.data.v
           i == call.args.zero_idx
           w == call.args.window
           lo == IF i - w < 0 THEN 0 ELSE i - w
           hi == IF i + w > Len(a) - 1 THEN Len(a) - 1 ELSE i + w
           mean == Div(Total(SubSeq(a, lo + 1, hi + 1)), I(hi - lo + 1))
       IN  /\ call.state = "returned"
           /\ \A k \in 0..(Len(a) - 1) :
                 At(call.result.a.v, k)
                     = Add(Sub(At(a, k), mean), call.args.value)

C26_DefaultLeavesNoStep ==
    CallOf("remove_offset") /\ call.args.set_between = set_between_default
    /\ InBounds(call.args.data.v, call.args.start_idx)
    /\ InBounds(call.args.data.v, call.args.end_idx)
    /\ call.args.start_idx <= call.args.end_idx
    => LET a == call.args.data.v
           s == call.args.start_idx
           e == call.args.end_idx
       IN  /\ call.state = "returned"
           /\ \A k \in s..(Len(a) - 1) :
                 At(call.result.a.v, k) =
                     IF k < e THEN At(a, s)
                     ELSE Sub(At(a, k), Sub(At(a, e), At(a, s)))

(***************************************************************************)
(* C27: elastic_correction(load, displacement, coeffs) returns at every    *)
(* index the displacement minus the polynomial in the load whose           *)
(* coefficients are coeffs, highest power first, in the unit the           *)
(* displacement came in; with all coefficients zero it returns the         *)
(* displacement.                                                           *)
(***************************************************************************)
\* the quantity m unit, in base units
InBase(m, unit) == Mul(m, unit)

\* the polynomial with the coefficient quantities coeffs at the load x, a
\* number of base units
RECURSIVE Polynomial(_, _)
Polynomial(coeffs, x) ==
    IF coeffs = <<>> THEN I(0)
    ELSE Add(Mul(InBase(coeffs[1].m, coeffs[1].units), Pow(x, I(Len(coeffs) - 1))),
             Polynomial(Tail(coeffs), x))

C27_ElasticCorrection ==
    CallOf("elastic_correction")
    /\ Len(call.args.load.m.v) = Len(call.args.displacement.m.v)
    => LET l == call.args.load
           d == call.args.displacement
           c == call.args.coeffs
       IN  /\ call.state = "returned"
           /\ call.result.a.units = d.units
           /\ Len(call.result.a.m.v) = Len(d.m.v)
           /\ \A i \in 1..Len(d.m.v) :
                 InBase(call.result.a.m.v[i], d.units)
                     = Sub(InBase(d.m.v[i], d.units),
                           Polynomial(c, InBase(l.m.v[i], l.units)))
           /\ (\A k \in 1..Len(c) : c[k].m = I(0))
                 => call.result.a.m.v = d.m.v

\* 4 dm at a load of 1 daN with coefficients <<1 m/N, 0 m>>: 4 dm - 10 m
C27_Witness ==
    /\ CallOf("elastic_correction") /\ call.state = "returned"
    /\ call.args.load = Quantity(Argument(<<I(1)>>), decanewton)
    /\ call.args.displacement = Quantity(Argument(<<I(4)>>), decimeter)
    /\ call.args.coeffs = <<Quantity(I(1), per(meter, newton, 1)),
                            Quantity(I(0), meter)>>
    /\ call.result.a.m.v = <<I(-96)>>

(***************************************************************************)
(* C28: zero, remove_offset and elastic_correction have no effect but      *)
(* their return value: when a call has ended, the arrays the caller passed *)
(* hold the values they held before it.  (Stated as the claim has it;      *)
(* remove_offset writes into the array it is given.)                       *)
(***************************************************************************)
C28_NoSideEffects ==
    call.state \in {"returned", "raised"} =>
        CASE call.function \in {"zero", "remove_offset"} ->
                 call.after.data = call.args.data.v
          [] call.function = "elastic_correction" ->
                 /\ call.after.load = call.args.load.m.v
                 /\ call.after.displacement = call.args.displacement.m.v
(***************************************************************************)
(* C29: doit on a finite script none of whose lines fails eventually       *)
(* returns; it dispatches the lines one at a time in file order, each at   *)
(* most once, and stops at the first end line or after the last line:      *)
(* nothing runs once it has halted.                                        *)
(***************************************************************************)
C29_DoitHalts ==
    /\ ([](status # "raised")) => <>(status = "returned")
    /\ [][/\ status = "created" \/ status = "running"
          /\ \/ lineno' = lineno
             \/ lineno' = lineno + 1 /\ status = "running"]_vars
    /\ [](lineno > 0 /\ IsEndLine(line) => status = "returned")

\* doit returned after the last line, which was no end line
C29_Witness ==
    /\ status = "returned" /\ lineno = MaxLines
    /\ ~IsEndLine(line)
    /\ self # init
(***************************************************************************)
(* C30: a command changes the data only of the slots it names as its       *)
(* target: its out slot, the x slot of math_int too, the column of zero,   *)
(* offset_int and r_col, every slot for r_row, the slots read loads; so    *)
(* after `math_int x ... out ...`, a math_int on out leaves slot x alone.  *)
(* (Stated as the claim has it; math_int stores the array of slot x        *)
(* itself in slot out, so the two slots share one array.)                  *)
(***************************************************************************)
\* the slot a field of the line names, if it names one
Named(raw, pos) ==
    IF pos <= Len(Fields(raw)) /\ IsSlot(Fields(raw)[pos])
    THEN {SlotOf(Fields(raw)[pos])} ELSE {}

Targets(raw) ==
    IF IsBlank(raw) \/ IsEndLine(raw) \/ Keyword(raw) \notin DOMAIN Expects
       \/ Len(Fields(raw)) # Expects[Keyword(raw)]
    THEN {}
    ELSE CASE Keyword(raw) = <<"math">> -> Named(raw, 6)
           [] Keyword(raw) = <<"math_int">> -> Named(raw, 2) \cup Named(raw, 6)
           [] Keyword(raw) = <<"summation">> -> Named(raw, 3)
           [] Keyword(raw) \in {<<"power">>, <<"ec">>} -> Named(raw, 4)
           [] Keyword(raw) \in {<<"zero">>, <<"offset_int">>, <<"r_col">>} ->
                  Named(raw, 2)
           [] Keyword(raw) = <<"r_row">> -> Slots
           [] Keyword(raw) = <<"read">> ->
                  IF Fields(raw)[2] \in DOMAIN Files
                  THEN 0..Len(ActiveColumns(Files[Fields(raw)[2]]))
                  ELSE {}
           [] OTHER -> {}

C30_ColumnsIndependent ==
    lineno > 0 =>
        \A k \in Slots \ Targets(line) : self.data[k] = old.data[k]
(***************************************************************************)
(* C31: an `offset_int col start stop flag` line with all its fields whose *)
(* flag is neither y nor n (in either case) is an invalid command: one     *)
(* warning, the store unchanged, and doit goes on; with flag y or Y the    *)
(* records in [start, stop) are leveled to the start value, with n or N    *)
(* they are left.  (Stated as the claim has it; for a bad flag the handler *)
(* calls command_invalid without its argument.)                            *)
(***************************************************************************)
IsOffsetInt(raw) ==
    /\ ~IsBlank(raw) /\ ~IsEndLine(raw)
    /\ Keyword(raw) = <<"offset_int">> /\ Len(Fields(raw)) = 5
    /\ IsSlot(Fields(raw)[2]) /\ is_int(Fields(raw)[3]) /\ is_int(Fields(raw)[4])

Flag(raw) == Fields(raw)[5]

C31_OffsetIntFlag ==
    \A raw \in Lines :
        Ran(raw) /\ IsOffsetInt(raw) =>
            LET c == SlotOf(Fields(raw)[2])
                start == int(Fields(raw)[3])
                stop == int(Fields(raw)[4])
            IN  IF Flag(raw) \notin {<<"y">>, <<"Y">>, <<"n">>, <<"N">>}
                THEN StoreUnchanged /\ Len(warned) = 1 /\ WentOn
                ELSE 0 <= start /\ start <= stop /\ stop < Len(old.data[c]) =>
                        /\ WentOn
                        /\ \A k \in start..(stop - 1) :
                              self.data[c][k + 1] =
                                  IF Flag(raw) \in {<<"y">>, <<"Y">>}
                                  THEN old.data[c][start + 1]
                                  ELSE old.data[c][k + 1]
(***************************************************************************)
(* C32: in every reachable state the name of each slot is absent exactly   *)
(* if its unit-string is absent; zero, offset_int and r_row change neither *)
(* names nor unit-strings.                                                 *)
(***************************************************************************)
C32_NameIffUnit ==
    /\ \A k \in Slots : self.data_names[k] = None <=> self.data_units[k] = None
    /\ \A raw \in Lines :
          /\ Ran(raw) /\ ~IsBlank(raw) /\ ~IsEndLine(raw)
          /\ Keyword(raw) \in {<<"zero">>, <<"offset_int">>, <<"r_row">>}
          => \A k \in Slots : /\ self.data_names[k] = old.data_names[k]
                              /\ self.data_units[k] = old.data_units[k]

\* r_col has cleared the name and the unit-string of a column that was read,
\* and another column has both
C32_Witness ==
    /\ lineno = 2 /\ ~IsBlank(line) /\ Keyword(line) = <<"r_col">>
    /\ old.data_names[1] # None /\ old.data_units[1] # None
    /\ self.data_names[1] = None /\ self.data_units[1] = None
    /\ self.data_names[2] # None /\ self.data_units[2] # None
(***************************************************************************)
(* C33: execution is deterministic: the store a line leaves is a function  *)
(* of the store before it and of the files, so two fresh interpreters      *)
(* running the same script end with identical stores, r_col and columns    *)
(* shorter than the record count included.  (Stated as the claim has it;   *)
(* np.empty and np.empty_like leave memory uninitialised.)                 *)
(***************************************************************************)
C33_Deterministic ==
    \A raw \in Lines :
        Ran(raw) /\ ~IsEndLine(raw) =>
            \A r \in Outcomes(old, raw) :
                /\ r.exc = exc
                /\ \A k \in Slots : /\ r.self.data[k] = self.data[k]
                                    /\ r.self.data_names[k] = self.data_names[k]
                                    /\ r.self.data_units[k] = self.data_units[k]
(***************************************************************************)
(* C34: read_binary called with a byte order other than little and big     *)
(* ends in the ValueError 'Data endian setting invalid' and returns no     *)
(* mapping.  (Stated as the claim has it; the ValueError is constructed    *)
(* and never raised.)                                                      *)
(***************************************************************************)
C34_InvalidEndianRaises ==
    Ended /\ call.data_endianness \notin {"little", "big"} =>
        call.state = "raised" /\ call.result.exc = "ValueError"
(***************************************************************************)
(* C35: the mapping read_binary returns has, next to rec_num, exactly one  *)
(* entry per active header block, none extra and none lost, also when two  *)
(* header blocks carry the same name.  (Stated as the claim has it; the    *)
(* mapping is a dict keyed by the name.)                                   *)
(***************************************************************************)
C35_OneEntryPerBlock ==
    call.state = "returned" =>
        LET active == Contributing(call.file, call.clean_header)
            entries == Tail(call.result.data_dict)
        IN  /\ Len(entries) = Len(active)
            /\ \A k \in 1..Len(active) :
                  entries[k].name = KeptText(active[k].chname, call.clean_header)
(***************************************************************************)
(* C36: read never addresses a slot outside 0..31: for every file with     *)
(* between 0 and 32 active header columns the command completes without    *)
(* an out-of-range slot access and the store still has 32 slots.  (Stated  *)
(* as the claim has it; rec_num takes slot 0, so the 32nd column goes to   *)
(* slot 32.)                                                               *)
(***************************************************************************)
C36_ReadStaysInStore ==
    \A raw \in Lines :
        /\ Ran(raw) /\ ~IsBlank(raw)
        /\ Keyword(raw) = <<"read">> /\ Len(Fields(raw)) = 2
        /\ Fields(raw)[2] \in DOMAIN Files
        /\ Len(ActiveColumns(Files[Fields(raw)[2]])) \in 0..header_blocks
        => /\ exc = "none" /\ WentOn
           /\ DOMAIN self.data = Slots
           /\ DOMAIN self.data_names = Slots /\ DOMAIN self.data_units = Slots
=============================================================================
